---- MODULE Spec2Model ----
(***************************************************************************)
(* The sundialy.tools entry points (bird, spa, sampa, solpos) as a state    *)
(* machine.                                                                *)
(*                                                                         *)
(* The Python code computes on floats.  Here every real quantity is an     *)
(* integer count of ten-thousandths (S units to 1), angles are degrees as  *)
(* in the source, and the math module's functions are computed by their    *)
(* series in that arithmetic.  A math function that raises ValueError in   *)
(* Python (acos/asin outside [-1, 1], sqrt of a negative) makes the call   *)
(* end with the result Raised.                                             *)
(*                                                                         *)
(* The periodic-term series (Earth heliocentric, lunar, nutation tables)   *)
(* are not summed here: the quantities they deliver to the rest of the     *)
(* code (declinations, hour angles, distances, the sun-moon separation)    *)
(* are drawn from grids that cover the values they take.                   *)
(***************************************************************************)
EXTENDS Integers, Sequences, FiniteSets, TLC

VARIABLES
    fn,     \* entry point of the call that just ended: "none" before any call
    args,   \* its arguments
    loc,    \* its local variables when it ended
    res     \* what it returned, or Raised

vars == <<fn, args, loc, res>>

(***************************************************************************)
(* Fixed-point arithmetic.                                                 *)
(***************************************************************************)
S == 10^4

Abs(x) == IF x < 0 THEN -x ELSE x

Sgn(x) == IF x < 0 THEN -1 ELSE IF x > 0 THEN 1 ELSE 0

\* a * b / S for a, b >= 0, rounded to the nearest unit, the product never
\* formed in one piece.
MulU(a, b) ==
    LET a1 == a \div S
        a0 == a % S
        b1 == b \div S
        b0 == b % S
    IN  a1 * b1 * S + a1 * b0 + a0 * b1 + (a0 * b0 + S \div 2) \div S

\* the product of two reals: Python's a * b
Mul(a, b) == Sgn(a) * Sgn(b) * MulU(Abs(a), Abs(b))

\* a * S / b for a >= 0, b > 0, rounded to the nearest unit, by long division,
\* one decimal digit at a time.
DivU(a, b) ==
    LET q0 == a \div b
        r0 == a % b
        q1 == (r0 * 10) \div b
        r1 == (r0 * 10) % b
        q2 == (r1 * 10) \div b
        r2 == (r1 * 10) % b
        q3 == (r2 * 10) \div b
        r3 == (r2 * 10) % b
        q4 == (r3 * 10) \div b
        r4 == (r3 * 10) % b
        up == IF 2 * r4 >= b THEN 1 ELSE 0
    IN  q0 * S + q1 * 1000 + q2 * 100 + q3 * 10 + q4 + up

\* the quotient of two reals: Python's a / b, b # 0
Div(a, b) == Sgn(a) * Sgn(b) * DivU(Abs(a), Abs(b))

\* a real given by its decimal digits: Dec(9662, 4) is 0.9662
Dec(digits, places) ==
    IF places <= 4 THEN digits * 10^(4 - places)
    ELSE Sgn(digits) * ((Abs(digits) + (10^(places - 4)) \div 2) \div 10^(places - 4))

\* an integer as a real
Whole(n) == n * S

(***************************************************************************)
(* The math module, in radians as in Python.                               *)
(***************************************************************************)
Pi == 31416

HalfPi == 15708

TwoPi == 62832

\* math.radians: x * pi / 180 with pi = 355/113
Radians(x) == Sgn(x) * ((Abs(x) * 355 + 10170) \div 20340)

\* math.degrees: x * 180 / pi
Degrees(x) == Sgn(x) * ((Abs(x) * 20340 + 177) \div 355)

\* sin x for 0 <= x <= pi/4: x - x^3/3! + x^5/5! - x^7/7!
SinSeries(x) ==
    LET x2 == Mul(x, x)
        t3 == S - x2 \div 42
        t2 == S - Mul(x2, t3) \div 20
        t1 == S - Mul(x2, t2) \div 6
    IN  Mul(x, t1)

\* cos x for 0 <= x <= pi/4: 1 - x^2/2! + x^4/4! - x^6/6! + x^8/8!
CosSeries(x) ==
    LET x2 == Mul(x, x)
        t4 == S - x2 \div 56
        t3 == S - Mul(x2, t4) \div 30
        t2 == S - Mul(x2, t3) \div 12
    IN  S - Mul(x2, t2) \div 2

\* sin x for 0 <= x <= pi/2
SinQuadrant(x) ==
    IF 2 * x <= HalfPi THEN SinSeries(x) ELSE CosSeries(HalfPi - x)

\* math.sin: the angle folded into the first quadrant, the sign that of its
\* half turn
Sin(x) ==
    LET y == x % TwoPi
        folded == IF y <= HalfPi THEN y
                  ELSE IF y <= Pi THEN Pi - y
                  ELSE IF y <= Pi + HalfPi THEN y - Pi
                  ELSE TwoPi - y
    IN  (IF y <= Pi THEN 1 ELSE -1) * SinQuadrant(folded)

\* math.cos
Cos(x) == Sin(x + HalfPi)

\* math.tan
Tan(x) == Div(Sin(x), Cos(x))

\* the largest r with r * r <= n, one bit of r at a time from bit down
RECURSIVE IsqrtFrom(_, _, _)
IsqrtFrom(n, r, bit) ==
    IF bit = 0 THEN r
    ELSE IF r + bit <= n \div (r + bit)
         THEN IsqrtFrom(n, r + bit, bit \div 2)
         ELSE IsqrtFrom(n, r, bit \div 2)

\* math.sqrt, x >= 0 (a negative x is a ValueError: see SqrtRaises)
Sqrt(x) == IsqrtFrom(x * S, 0, 2^15)

SqrtRaises(x) == x < 0

\* atan t for |t| <= tan(pi/8): t - t^3/3 + t^5/5 - ... - t^11/11
AtanSeries(t) ==
    LET t2 == Mul(t, t)
        u5 == S \div 9 - Mul(t2, S \div 11)
        u4 == S \div 7 - Mul(t2, u5)
        u3 == S \div 5 - Mul(t2, u4)
        u2 == S \div 3 - Mul(t2, u3)
        u1 == S - Mul(t2, u2)
    IN  Mul(t, u1)

\* atan x for 0 <= x <= 1
AtanUnit(x) ==
    (IF x <= 4142 THEN 0 ELSE Pi \div 4)
        + AtanSeries(IF x <= 4142 THEN x ELSE Div(x - S, x + S))

\* math.atan
Atan(x) ==
    LET a == Abs(x)
    IN  Sgn(x) * ((IF a <= S THEN 0 ELSE HalfPi)
                      + (IF a <= S THEN 1 ELSE -1)
                          * AtanUnit(IF a <= S THEN a ELSE Div(S, a)))

\* math.atan2
Atan2(y, x) ==
    IF x = 0 THEN Sgn(y) * HalfPi
    ELSE (IF x > 0 THEN 0 ELSE IF y >= 0 THEN Pi ELSE -Pi) + Atan(Div(y, x))

\* math.asin and math.acos raise ValueError outside [-1, 1]
AsinRaises(x) == Abs(x) > S

AcosRaises(x) == Abs(x) > S

\* math.asin, |x| <= 1
Asin(x) == Atan2(x, Sqrt(S - Mul(x, x)))

\* math.acos, |x| <= 1
Acos(x) == Atan2(Sqrt(S - Mul(x, x)), x)

\* ln 2
Ln2 == 6931

\* the k with 2^k <= x < 2^(k+1), counted from k, x > 0 in units
RECURSIVE Log2From(_, _)
Log2From(x, k) == IF x < 2 THEN k ELSE Log2From(x \div 2, k + 1)

\* ln y for 1 <= y < 2: 2 * (z + z^3/3 + z^5/5 + z^7/7 + z^9/9), z = (y-1)/(y+1)
LnSeries(y) ==
    LET z == Div(y - S, y + S)
        z2 == Mul(z, z)
        u4 == S \div 7 + Mul(z2, S \div 9)
        u3 == S \div 5 + Mul(z2, u4)
        u2 == S \div 3 + Mul(z2, u3)
        u1 == S + Mul(z2, u2)
    IN  2 * Mul(z, u1)

\* math.log, x > 0: x = 2^k * y with 1 <= y < 2
Ln(x) ==
    LET k == Log2From(x, 0) - Log2From(S, 0)
        y0 == IF k >= 0 THEN x \div 2^k ELSE x * 2^(-k)
        up == y0 >= 2 * S
        dn == y0 < S
        kk == IF up THEN k + 1 ELSE IF dn THEN k - 1 ELSE k
        y == IF up THEN y0 \div 2 ELSE IF dn THEN y0 * 2 ELSE y0
    IN  Sgn(kk) * ((Abs(kk) * 693147) \div 100) + LnSeries(y)

\* e^r for r about 0 .. ln 2: 1 + r + r^2/2! + ... + r^9/9!
ExpSeries(r) ==
    LET u8 == S + r \div 9
        u7 == S + Mul(r, u8) \div 8
        u6 == S + Mul(r, u7) \div 7
        u5 == S + Mul(r, u6) \div 6
        u4 == S + Mul(r, u5) \div 5
        u3 == S + Mul(r, u4) \div 4
        u2 == S + Mul(r, u3) \div 3
        u1 == S + Mul(r, u2) \div 2
    IN  S + Mul(r, u1)

\* math.exp: x = k * ln 2 + r with r about 0 .. ln 2 (ln 2 = 0.693147)
\* (below e^-12 the value is under half a unit)
Exp(x) ==
    LET k == x \div Ln2
        r == x - Sgn(k) * ((Abs(k) * 693147) \div 100)
        e == ExpSeries(r)
    IN  IF x < -12 * S THEN 0
        ELSE IF k >= 0 THEN e * 2^k ELSE e \div 2^(-k)

\* x ** y for x >= 0: 0 ** y is 0 for y > 0, and x ** y is exp(y * log x)
Pow(x, y) == IF x = 0 THEN 0 ELSE Exp(Mul(y, Ln(x)))

(***************************************************************************)
(* bird.bird                                                               *)
(***************************************************************************)
\* the result of a call that ended in an exception
Raised == "ValueError"

\* the domain test with the upper bound of zenith let in: `zenith <= 90`
InDomainClosed(zenith, r) == 0 <= zenith /\ zenith <= Whole(90) /\ r > 0

\* `if 0 <= zenith < 90 and r > 0`
InDomain(zenith, r) == 0 <= zenith /\ zenith < Whole(90) /\ r > 0

\* the direct-normal value with the `if direct_normal < 0` test left out
NoClamp(direct_normal) == direct_normal

\* `if direct_normal < 0: direct_normal = 0`
ClampDirectNormal(direct_normal) == IF direct_normal < 0 THEN 0 ELSE direct_normal

\* `direct_normal_mod = direct_normal * dni_mod`
DirectNormalMod(direct_normal, dni_mod) == Mul(direct_normal, dni_mod)

\* the attenuated global value with the diffuse-sky term ias left out
GlobalModDirectOnly(direct_horizontal_mod, ias, albedo, rs) ==
    Div(direct_horizontal_mod, S - Mul(albedo, rs))

\* `it_mod = (direct_horizontal_mod + ias) / (1 - albedo * rs)`
GlobalMod(direct_horizontal_mod, ias, albedo, rs) ==
    Div(direct_horizontal_mod + ias, S - Mul(albedo, rs))

\* the attenuated diffuse value with the subtraction left out
DiffuseModGlobal(it_mod, direct_horizontal_mod) == it_mod

\* `diffuse_horizontal_mod = it_mod - direct_horizontal_mod`
DiffuseMod(it_mod, direct_horizontal_mod) == it_mod - direct_horizontal_mod

\* The local variables of bird in its valid domain are assigned in the
\* order of the code, a few at a time: each operator below takes the
\* arguments a and the locals l assigned so far and gives l with the next
\* ones added.  x ** -1 is computed as 1 / x and 0.0003 * xo ** 2 as
\* (0.0003 * xo) * xo, which keeps xo ** 2 in range.
BirdAirMass(a) ==
    [m |-> Div(S, Cos(Radians(a.zenith))
                    + Mul(Dec(50572, 5),
                          Pow(Dec(9607995, 5) - a.zenith, -Dec(16364, 4))))]

BirdPaths(a, l) ==
    l @@ [m_prime |-> Div(Mul(l.m, a.pressure), Whole(1013)),
          xo |-> Mul(a.ozone, l.m),
          xw |-> Mul(a.water, l.m)]

BirdTransmittances(a, l) ==
    l @@ [tr |-> Exp(Mul(Mul(-Dec(903, 4), Pow(l.m_prime, Dec(84, 2))),
                         S + l.m_prime - Pow(l.m_prime, Dec(101, 2)))),
          to |-> S - Mul(Mul(Dec(1611, 4), l.xo),
                         Pow(S + Mul(Dec(13948, 2), l.xo), -Dec(3034, 4)))
                   - Div(Mul(Dec(2715, 6), l.xo),
                         S + Mul(Dec(44, 3), l.xo) + Mul(Mul(Dec(3, 4), l.xo), l.xo)),
          tum |-> Exp(Mul(-Dec(127, 4), Pow(l.m_prime, Dec(26, 2)))),
          tw |-> S - Div(Mul(Dec(24959, 4), l.xw),
                         Pow(S + Mul(Dec(79034, 3), l.xw), Dec(6828, 4))
                           + Mul(Dec(6385, 3), l.xw)),
          ta |-> Exp(-Mul(Mul(Pow(a.aerosol, Dec(873, 3)),
                              S + a.aerosol - Pow(a.aerosol, Dec(7088, 4))),
                          Pow(l.m, Dec(9108, 4))))]

BirdAbsorptance(a, l) ==
    l @@ [taa |-> S - Mul(Mul(a.k1, S - l.m + Pow(l.m, Dec(106, 2))), S - l.ta)]

BirdScattering(a, l) ==
    l @@ [tas |-> Div(l.ta, l.taa),
          io |-> Div(Whole(1367), Mul(a.r, a.r))]

\* rs, id2 and ias
BirdSky(a, l) ==
    l @@ [rs |-> Dec(685, 4) + Mul(S - a.ba, S - l.tas),
          id2 |-> Mul(Mul(Mul(Mul(Mul(Mul(Mul(l.io, Cos(Radians(a.zenith))),
                                          Dec(9662, 4)), l.tr), l.to), l.tum),
                          l.tw), l.ta),
          ias |-> Div(Mul(Mul(Mul(Mul(Mul(Mul(Mul(l.io, Cos(Radians(a.zenith))),
                                              Dec(79, 2)), l.to), l.tw), l.tum),
                              l.taa),
                          Mul(Dec(5, 1), S - l.tr) + Mul(a.ba, S - l.tas)),
                      S - l.m + Pow(l.m, Dec(102, 2)))]

\* it, and formula: direct_normal as line 73 assigns it, before the clamp
BirdGlobal(a, l) ==
    l @@ [it |-> Div(l.id2 + l.ias, S - Mul(a.albedo, l.rs)),
          formula |-> Mul(Mul(Mul(Mul(Mul(Mul(Dec(9662, 4), l.io), l.tr), l.to),
                                  l.tum), l.tw), l.ta)]

BirdDirectNormal(a, l) ==
    l @@ [direct_normal |-> ClampDirectNormal(l.formula)]

BirdDirectHorizontal(a, l) ==
    l @@ [direct_horizontal |-> Mul(l.direct_normal, Cos(Radians(a.zenith)))]

BirdDiffuse(a, l) ==
    l @@ [diffuse_horizontal |-> l.it - l.direct_horizontal]

\* `direct_normal_mod, it_mod, diffuse_horizontal_mod = 0., 0, 0.`, which
\* stands unless dni_mod >= 0, and the first assignment under that test
BirdModDirect(a, l) ==
    IF a.dni_mod >= 0
    THEN l @@ [direct_normal_mod |-> DirectNormalMod(l.direct_normal, a.dni_mod)]
    ELSE l @@ [direct_normal_mod |-> 0, it_mod |-> 0, diffuse_horizontal_mod |-> 0]

\* `if dni_mod >= 0:`, second assignment
BirdModHorizontal(a, l) ==
    IF a.dni_mod >= 0
    THEN l @@ [direct_horizontal_mod |->
                 Mul(l.direct_normal_mod, Cos(Radians(a.zenith)))]
    ELSE l

\* `if dni_mod >= 0:`, third assignment
BirdModGlobal(a, l) ==
    IF a.dni_mod >= 0
    THEN l @@ [it_mod |-> GlobalMod(l.direct_horizontal_mod, l.ias, a.albedo, l.rs)]
    ELSE l

\* `if dni_mod >= 0:`, fourth assignment
BirdModDiffuse(a, l) ==
    IF a.dni_mod >= 0
    THEN l @@ [diffuse_horizontal_mod |-> DiffuseMod(l.it_mod, l.direct_horizontal_mod)]
    ELSE l

\* the locals of bird in its valid domain when it returns
BirdLocals(a) ==
    BirdModDiffuse(a, BirdModGlobal(a, BirdModHorizontal(a, BirdModDirect(a,
    BirdDiffuse(a, BirdDirectHorizontal(a, BirdDirectNormal(a, BirdGlobal(a,
    BirdSky(a, BirdScattering(a, BirdAbsorptance(a, BirdTransmittances(a,
    BirdPaths(a, BirdAirMass(a) @@ [at |-> "return"])))))))))))))

\* the locals of a call outside the valid domain: none assigned
NoLocals == [at |-> "return"]

\* `return m, direct_normal, it, diffuse_horizontal, direct_normal_mod, ...`
BirdReturn(l) ==
    [loc |-> l,
     res |-> <<l.m, l.direct_normal, l.it, l.diffuse_horizontal,
               l.direct_normal_mod, l.it_mod, l.diffuse_horizontal_mod>>]

\* bird's locals and return value for the arguments a
BirdRun(a) ==
    IF InDomain(a.zenith, a.r)
    THEN BirdReturn(BirdLocals(a))
    ELSE [loc |-> NoLocals, res |-> <<0, 0, 0, 0, 0, 0, 0>>]

(***************************************************************************)
(* spa.spa.  a holds the arguments year, month, day, hour (the time of day *)
(* is a whole hour: minute, second and microsecond are 0), latitude,       *)
(* elevation (in whole metres), pressure, temperature, omega and gamma; s  *)
(* holds what the series deliver for the call's date, time and longitude:  *)
(* the sun's geocentric right ascension a2, declination d and local hour   *)
(* angle h, its distance r, the mean longitude m, the nutation in          *)
(* longitude dy, the true obliquity e_2, and the geocentric declination    *)
(* d_0 at 0 UT.  A Julian Day is a whole number of hours (24 to the day),  *)
(* as is the day of the date converted back from it.  The transit,         *)
(* sunrise and sunset times are not carried.                               *)
(***************************************************************************)
\* the hours of a day: `day += hour / 24`
HoursPerDay == 24

\* Python's int(n / d) for integers n and d > 0: the quotient truncated
\* toward zero
Truncate(n, d) == Sgn(n) * (Abs(n) \div d)

\* `if month <= 2: year -= 1`
ShiftedYear(year, month) == IF month <= 2 THEN year - 1 ELSE year

\* `if month <= 2: month += 12`
ShiftedMonth(month) == IF month <= 2 THEN month + 12 ELSE month

\* `a = int(year / 100)`
Century(year) == Truncate(year, 100)

\* `b_for_jd = 2 - a + int(a / 4)`
CenturyCorrection(a) == 2 - a + Truncate(a, 4)

\* `jd = int(365.25 * (year + 4716)) + int(30.6001 * (month + 1)) + day +
\* b_for_jd - 1524.5`, in hours, for day in hours
JulianDay(year, month, day, b_for_jd) ==
    HoursPerDay * (Truncate(1461 * (year + 4716), 4)
                     + Truncate(306001 * (month + 1), 10000) + b_for_jd - 1524)
      + day - HoursPerDay \div 2

\* `z_capital = int(jd_plus_5)` for jd in hours
DayNumber(jd) == Truncate(jd + HoursPerDay \div 2, HoursPerDay)

\* a_capital with the test `z_capital < 2299161` left out: the Gregorian
\* branch for every day number
CalendarAGregorian(z_capital) ==
    z_capital + 1 + Truncate(4 * z_capital - 7468865, 146097)
      - Truncate(Truncate(4 * z_capital - 7468865, 146097), 4)

\* a_capital: z_capital itself below 2299161, else with
\* `b_capital = int((z_capital - 1867216.25) / 36524.25)` the sum
\* `z_capital + 1 + b_capital - int(b_capital / 4)`
CalendarA(z_capital) ==
    IF z_capital < 2299161 THEN z_capital
    ELSE z_capital + 1 + Truncate(4 * z_capital - 7468865, 146097)
           - Truncate(Truncate(4 * z_capital - 7468865, 146097), 4)

\* `d_capital = int((c_capital - 122.1) / 365.25)`
CalendarD(c_capital) == Truncate(20 * c_capital - 2442, 7305)

\* `g_capital = int(365.25 * d_capital)`
CalendarG(d_capital) == Truncate(1461 * d_capital, 4)

\* `i_capital = int((c_capital - g_capital) / 30.6001)`
CalendarI(c_capital, g_capital) == Truncate(10000 * (c_capital - g_capital), 306001)

\* `day_from_jd = c_capital - g_capital - int(30.6001 * i_capital) +
\* f_capital`, in hours, for f_capital in hours
DayFromJd(c_capital, g_capital, i_capital, f_capital) ==
    HoursPerDay * (c_capital - g_capital - Truncate(306001 * i_capital, 10000))
      + f_capital

\* `month_from_jd = i_capital - 1 if i_capital < 14 else i_capital - 13`
MonthFromJd(i_capital) == IF i_capital < 14 THEN i_capital - 1 ELSE i_capital - 13

\* `year_from_jd = d_capital - 4716 if month_from_jd > 2 else d_capital - 4715`
YearFromJd(d_capital, month_from_jd) ==
    IF month_from_jd > 2 THEN d_capital - 4716 ELSE d_capital - 4715

\* `datetime(year, month, int(day))` raises ValueError for a year outside
\* 1 .. 9999
DatetimeRaises(year) == year < 1 \/ year > 9999

\* `datetime(year, month, int(day)) - timedelta(days=1) -
\* timedelta(seconds=dt)` raises OverflowError when that is before the first
\* instant datetime can hold: for the default dt of 67 seconds, on the first
\* two days of the year 1
DayBeforeOverflows(year, month, day) == year = 1 /\ month = 1 /\ day <= 2

Overflowed == "OverflowError"

\* `xi = 8.794 / (3600 * r)`
SunParallax(r) == Div(Dec(8794, 3), Mul(Whole(3600), r))

\* `u2 = math.degrees(math.atan(0.99664719 * math.tan(math.radians(latitude))))`
ReducedLatitude(latitude) ==
    Degrees(Atan(Mul(Dec(99664719, 8), Tan(Radians(latitude)))))

\* x2 for the reduced latitude u2
ObserverX(u2, latitude, elevation) ==
    Cos(Radians(u2)) + Mul(Div(elevation, 6378140), Cos(Radians(latitude)))

\* y for the reduced latitude u2
ObserverY(u2, latitude, elevation) ==
    Mul(Dec(99664719, 8), Sin(Radians(u2)))
      + Mul(Div(elevation, 6378140), Sin(Radians(latitude)))

\* cos(d) - x2 * sin(p) * cos(h) for the horizontal parallax p
ParallaxDivisor(x2, p, d, h) ==
    Cos(Radians(d)) - Mul(Mul(x2, Sin(Radians(p))), Cos(Radians(h)))

\* da, the parallax in right ascension
ParallaxInRightAscension(x2, p, d, h) ==
    Degrees(Atan2(Mul(Mul(-x2, Sin(Radians(p))), Sin(Radians(h))),
                  ParallaxDivisor(x2, p, d, h)))

\* d_prime, the topocentric declination
TopocentricDeclination(x2, y, p, d, h, da) ==
    Degrees(Atan2(Mul(Sin(Radians(d)) - Mul(y, Sin(Radians(p))),
                      Cos(Radians(da))),
                  ParallaxDivisor(x2, p, d, h)))

\* the azimuth as gamma2 + 180, not reduced
AzimuthUnreduced(gamma2) == gamma2 + Whole(180)

\* `f = gamma2 + 180`, `f = f % 360`
Azimuth(gamma2) == (gamma2 + Whole(180)) % Whole(360)

\* the equation of time in minutes as first computed
NoEotWrap(eot_minutes) == eot_minutes

\* `if eot_minutes > 20: eot_minutes -= 1440`,
\* `elif eot_minutes < -20: eot_minutes += 1440`
EotWrap(eot_minutes) ==
    IF eot_minutes > Whole(20) THEN eot_minutes - Whole(1440)
    ELSE IF eot_minutes < -Whole(20) THEN eot_minutes + Whole(1440)
    ELSE eot_minutes

\* `h_prime_0 = -1 * (0.26667 + 0.5667)`
h_prime_0 == -Dec(83337, 5)

\* sin(lat) * sin(d) + cos(lat) * cos(d) * cos(h): the operand of the asin
\* that gives a topocentric elevation
ElevationOperand(latitude, d_prime, h_prime) ==
    Mul(Sin(Radians(latitude)), Sin(Radians(d_prime)))
      + Mul(Mul(Cos(Radians(latitude)), Cos(Radians(d_prime))),
            Cos(Radians(h_prime)))

\* the atmospheric refraction correction for the elevation e0
Refraction(pressure, temperature, e0) ==
    Mul(Mul(Div(pressure, Whole(1010)), Div(Whole(283), Whole(273) + temperature)),
        Div(Dec(102, 2),
            Mul(Whole(60), Tan(Radians(e0 + Div(Dec(103, 1), e0 + Dec(511, 2)))))))

\* spa's `if e0 >= -1 * (0.26667 + 0.5667): de2 = ... else: de2 = 0`
SunRefraction(pressure, temperature, e0) ==
    IF e0 >= h_prime_0 THEN Refraction(pressure, temperature, e0) ELSE 0

\* the topocentric astronomers azimuth angle, reduced mod 360
Gamma(latitude, d_prime, h_prime) ==
    Degrees(Atan2(Sin(Radians(h_prime)),
                  Mul(Cos(Radians(h_prime)), Sin(Radians(latitude)))
                    - Mul(Tan(Radians(d_prime)), Cos(Radians(latitude)))))
      % Whole(360)

\* the operand of the acos that gives the incidence angle i
IncidenceOperand(theta, omega, gamma2, gamma) ==
    Mul(Cos(Radians(theta)), Cos(Radians(omega)))
      + Mul(Mul(Sin(Radians(omega)), Sin(Radians(theta))),
            Cos(Radians(gamma2 - gamma)))

\* `acos_arguement`: the operand of the sunrise/sunset half-range H_0
HalfRangeOperand(latitude, d_0) ==
    Div(Sin(Radians(h_prime_0)) - Mul(Sin(Radians(latitude)), Sin(Radians(d_0))),
        Mul(Cos(Radians(latitude)), Cos(Radians(d_0))))

\* `H_0 = math.degrees(math.acos(acos_arguement))`, `H_0 = H_0 % 180`
HalfRangeAngle(acos_arguement) == Degrees(Acos(acos_arguement)) % Whole(180)

\* The locals of spa are assigned in the order of the code: each operator
\* below takes the arguments a, the sky s and the locals l assigned so far
\* and gives l with the next ones added.  l.at is "run" while spa runs; a
\* function that raises (a math function handed an operand outside its
\* domain, a datetime out of range) ends the run: l.at then names the local
\* being assigned, l.error the exception when it is not ValueError, and
\* nothing more is assigned.  The code reassigns year, month and day for
\* the Julian Day and restores them at line 829: the shifted ones are
\* l.year, l.month and l.day here.
SpaShift(a, s) ==
    [at |-> "run",
     year |-> ShiftedYear(a.year, a.month),
     month |-> ShiftedMonth(a.month),
     day |-> a.day * HoursPerDay + a.hour]

SpaCentury(a, s, l) == l @@ [a |-> Century(l.year)]

SpaCenturyCorrection(a, s, l) == l @@ [b_for_jd |-> CenturyCorrection(l.a)]

SpaJulianDay(a, s, l) ==
    l @@ [jd |-> JulianDay(l.year, l.month, l.day, l.b_for_jd)]

SpaObserver(a, s, l) ==
    l @@ [xi |-> SunParallax(s.r), u2 |-> ReducedLatitude(a.latitude)]

SpaObserverPosition(a, s, l) ==
    l @@ [x2 |-> ObserverX(l.u2, a.latitude, a.elevation),
          y |-> ObserverY(l.u2, a.latitude, a.elevation)]

SpaParallax(a, s, l) ==
    l @@ [da |-> ParallaxInRightAscension(l.x2, l.xi, s.d, s.h)]

SpaTopocentric(a, s, l) ==
    l @@ [a_prime |-> s.a2 + l.da,
          d_prime |-> TopocentricDeclination(l.x2, l.y, l.xi, s.d, s.h, l.da),
          h_prime |-> s.h - l.da]

SpaElevationOperand(a, s, l) ==
    l @@ [e0_arg |-> ElevationOperand(a.latitude, l.d_prime, l.h_prime)]

SpaElevation(a, s, l) ==
    IF AsinRaises(l.e0_arg) THEN [l EXCEPT !.at = "e0"]
    ELSE l @@ [e0 |-> Degrees(Asin(l.e0_arg))]

SpaRefraction(a, s, l) ==
    IF l.at # "run" THEN l
    ELSE l @@ [de2 |-> SunRefraction(a.pressure, a.temperature, l.e0)]

SpaApparent(a, s, l) ==
    IF l.at # "run" THEN l
    ELSE l @@ [e |-> l.e0 + l.de2,
               gamma2 |-> Gamma(a.latitude, l.d_prime, l.h_prime)]

SpaZenith(a, s, l) ==
    IF l.at # "run" THEN l
    ELSE l @@ [theta |-> Whole(90) - l.e,
               f |-> Azimuth(l.gamma2)]

SpaIncidenceOperand(a, s, l) ==
    IF l.at # "run" THEN l
    ELSE l @@ [i_arg |-> IncidenceOperand(l.theta, a.omega, l.gamma2, a.gamma)]

SpaIncidence(a, s, l) ==
    IF l.at # "run" THEN l
    ELSE IF AcosRaises(l.i_arg) THEN [l EXCEPT !.at = "i"]
    ELSE l @@ [i |-> Degrees(Acos(l.i_arg)),
               eot |-> s.m - Dec(57183, 7) - s.a2
                         + Mul(s.dy, Cos(Radians(s.e_2)))]

SpaEquationOfTime(a, s, l) ==
    IF l.at # "run" THEN l
    ELSE l @@ [eot_minutes |-> EotWrap(l.eot * 4)]

\* day_m1, day_0 and day_p1: the datetime of line 832 is the first to be
\* constructed
SpaDays(a, s, l) ==
    IF l.at # "run" THEN l
    ELSE IF DatetimeRaises(a.year) THEN [l EXCEPT !.at = "day_m1"]
    ELSE IF DayBeforeOverflows(a.year, a.month, a.day)
         THEN [l EXCEPT !.at = "day_m1"] @@ [error |-> Overflowed]
    ELSE l @@ [acos_arguement |-> HalfRangeOperand(a.latitude, s.d_0)]

\* both branches of `if abs(acos_arguement) <= 1` call math.acos on the
\* operand: the else branch, taken when the operand is outside [-1, 1],
\* raises ValueError there and never reaches its sun_time_notes assignment
SpaHalfRange(a, s, l) ==
    IF l.at # "run" THEN l
    ELSE IF Abs(l.acos_arguement) <= S
         THEN l @@ [H_0 |-> HalfRangeAngle(l.acos_arguement),
                    sun_time_notes |-> ""]
         ELSE IF AcosRaises(l.acos_arguement) THEN [l EXCEPT !.at = "H_0"]
         ELSE l @@ [H_0 |-> HalfRangeAngle(l.acos_arguement),
                    sun_time_notes |->
                      "Sun is always above or below the horizon for that day"]

\* Appendix A.3: the date from the Julian Day
SpaDayNumber(a, s, l) ==
    IF l.at # "run" THEN l
    ELSE l @@ [z_capital |-> DayNumber(l.jd),
               f_capital |-> l.jd + HoursPerDay \div 2
                               - HoursPerDay * DayNumber(l.jd)]

SpaCalendarC(a, s, l) ==
    IF l.at # "run" THEN l
    ELSE l @@ [c_capital |-> CalendarA(l.z_capital) + 1524]

SpaCalendarD(a, s, l) ==
    IF l.at # "run" THEN l
    ELSE l @@ [d_capital |-> CalendarD(l.c_capital)]

SpaCalendarG(a, s, l) ==
    IF l.at # "run" THEN l
    ELSE l @@ [g_capital |-> CalendarG(l.d_capital)]

SpaCalendarI(a, s, l) ==
    IF l.at # "run" THEN l
    ELSE l @@ [i_capital |-> CalendarI(l.c_capital, l.g_capital)]

SpaCalendarDate(a, s, l) ==
    IF l.at # "run" THEN l
    ELSE l @@ [day_from_jd |-> DayFromJd(l.c_capital, l.g_capital,
                                         l.i_capital, l.f_capital),
               month_from_jd |-> MonthFromJd(l.i_capital),
               year_from_jd |-> YearFromJd(l.d_capital,
                                           MonthFromJd(l.i_capital))]

\* the locals of spa when it ended
SpaLocals(a, s) ==
    SpaCalendarDate(a, s, SpaCalendarI(a, s, SpaCalendarG(a, s,
    SpaCalendarD(a, s, SpaCalendarC(a, s, SpaDayNumber(a, s,
    SpaHalfRange(a, s, SpaDays(a, s, SpaEquationOfTime(a, s,
    SpaIncidence(a, s, SpaIncidenceOperand(a, s,
    SpaZenith(a, s, SpaApparent(a, s, SpaRefraction(a, s,
    SpaElevation(a, s, SpaElevationOperand(a, s, SpaTopocentric(a, s,
    SpaParallax(a, s, SpaObserverPosition(a, s, SpaObserver(a, s,
    SpaJulianDay(a, s, SpaCenturyCorrection(a, s, SpaCentury(a, s,
    SpaShift(a, s))))))))))))))))))))))))

\* spa's outcome from its locals: the exception raised, or the first tuple
\* (i, theta, f, d_prime, h_prime, a_prime, e), the equation of time and
\* sun_time_notes of the second, and the third (year_from_jd,
\* month_from_jd, day_from_jd)
SpaReturn(s, l) ==
    IF l.at # "run"
    THEN [loc |-> l, res |-> IF "error" \in DOMAIN l THEN l.error ELSE Raised]
    ELSE [loc |-> [l EXCEPT !.at = "return"],
          res |-> [angles |-> <<l.i, l.theta, l.f, l.d_prime, l.h_prime,
                                l.a_prime, l.e>>,
                   eot_minutes |-> l.eot_minutes,
                   sun_time_notes |-> l.sun_time_notes,
                   date |-> <<l.year_from_jd, l.month_from_jd, l.day_from_jd>>]]

\* the locals of spa when it ended and its result
SpaRun(a, s) == SpaReturn(s, SpaLocals(a, s))

(***************************************************************************)
(* sampa.sampa.  a holds the arguments year, month, day, hour, latitude,   *)
(* elevation, pressure, temperature, ozone, water, aerosol, albedo, ba and *)
(* k1; s holds what the series deliver for the call's date, time and       *)
(* longitude: jme and the nutation in obliquity de, the moon's geocentric  *)
(* right ascension a2, declination d and local hour angle h and its        *)
(* distance delta (in whole km), and, under s.sun, what spa is given.      *)
(* s.sep is the angular separation ems of the two centres when they are    *)
(* within a degree of each other, where the arithmetic here cannot resolve *)
(* the acos that computes it; it is negative (Far) otherwise, and the acos *)
(* is then computed as in the code.                                        *)
(***************************************************************************)
\* the s.sep of a sky whose separation the acos resolves
Far == -S

\* x ** n for a whole n >= 0
RECURSIVE PowN(_, _)
PowN(x, n) == IF n = 0 THEN S ELSE Mul(PowN(x, n - 1), x)

\* the mean obliquity e0 in arc seconds, u = jme / 10
MeanObliquity(u) ==
    Dec(84381448, 3) - Mul(Dec(468093, 2), u) - Mul(Dec(155, 2), PowN(u, 2))
      + Mul(Dec(199925, 2), PowN(u, 3)) - Mul(Dec(5138, 2), PowN(u, 4))
      - Mul(Dec(24967, 2), PowN(u, 5)) - Mul(Dec(3905, 2), PowN(u, 6))
      + Mul(Dec(712, 2), PowN(u, 7)) + Mul(Dec(2787, 2), PowN(u, 8))
      + Mul(Dec(579, 2), PowN(u, 9)) + Mul(Dec(245, 2), PowN(u, 10))

\* `e = e0 / 3600 + de`: the true obliquity of the ecliptic
TrueObliquity(jme, de) == Div(MeanObliquity(Div(jme, Whole(10))), Whole(3600)) + de

\* `p = math.degrees(math.asin(6378.14 / delta))`, delta in whole km
MoonParallax(delta) == Degrees(Asin((63781400 + delta \div 2) \div delta))

\* the moon's refraction without the threshold: the formula at every e0
MoonRefractionUngated(pressure, temperature, e0) ==
    Refraction(pressure, temperature, e0)

\* sampa's `if e0 >= -1 * (0.26667 + 0.5667): de2 = ... else: de2 = 0`
MoonRefraction(pressure, temperature, e0) ==
    IF e0 >= -Dec(83337, 5) THEN Refraction(pressure, temperature, e0) ELSE 0

\* the operand of the acos that gives ems
SeparationOperand(theta_s, theta_m, f_s, f_m) ==
    Mul(Cos(Radians(theta_s)), Cos(Radians(theta_m)))
      + Mul(Mul(Sin(Radians(theta_s)), Sin(Radians(theta_m))),
            Cos(Radians(f_s - f_m)))

\* `r_s = 959.63 / (3600 * r_capital_s)`
SunRadius(r_capital_s) == Div(Dec(95963, 2), Mul(Whole(3600), r_capital_s))

\* `r_m = (358473400 * (1 + sin(e) * sin(p))) / (3600 * delta)`, delta in
\* whole km; 358473400 / 3600 is 99575.9444, which keeps the product in range
MoonRadius(e, p, delta) ==
    LET n == Mul(Dec(995759444, 4), S + Mul(Sin(Radians(e)), Sin(Radians(p))))
    IN  (n + delta \div 2) \div delta

\* the eclipse note: the first if/elif/else, then `if ems < r_m + r_s`
Classify(ems, r_m, r_s) ==
    LET first == IF ems > r_m + r_s THEN "No Eclipse"
                 ELSE IF ems = r_m + r_s THEN "Start or End of Eclipse"
                 ELSE "Solar Eclipse"
    IN  IF ems < r_m + r_s
        THEN IF ems <= Abs(r_m - r_s) THEN "Total Solar Eclipse"
             ELSE "Partial Solar Eclipse"
        ELSE first

\* the overlap of a total eclipse with the square left out: pi * r_m
TotalOverlapUnsquared(r_m) == Mul(Pi, r_m)

\* `a_i = math.pi * r_m ** 2`
TotalOverlap(r_m) == Mul(Pi, Mul(r_m, r_m))

\* `a_sul = math.pi * r_s ** 2 - a_i`, then `if a_sul < 0: a_sul = 0`
UnshadedArea(r_s, a_i) ==
    LET a_sul == Mul(Pi, Mul(r_s, r_s)) - a_i
    IN  IF a_sul < 0 THEN 0 ELSE a_sul

\* `a_sul_percent = (a_sul * 100) / (math.pi * r_s ** 2)`
UnshadedPercent(a_sul, r_s) == Div(Mul(a_sul, Whole(100)), Mul(Pi, Mul(r_s, r_s)))

\* the arguments sampa hands to spa: omega and gamma are 0
SpaArgs(a) ==
    [year |-> a.year, month |-> a.month, day |-> a.day, hour |-> a.hour,
     latitude |-> a.latitude, elevation |-> a.elevation,
     pressure |-> a.pressure, temperature |-> a.temperature,
     omega |-> 0, gamma |-> 0]

\* the arguments sampa hands to bird: dni_mod is a_sul_percent / 100
BirdArgs(a, r_capital_s, theta_s, a_sul_percent) ==
    [r |-> r_capital_s, zenith |-> theta_s, pressure |-> a.pressure,
     ozone |-> a.ozone, water |-> a.water, aerosol |-> a.aerosol,
     albedo |-> a.albedo, dni_mod |-> Div(a_sul_percent, Whole(100)),
     ba |-> a.ba, k1 |-> a.k1]

\* The locals of sampa are assigned in the order of the code: each operator
\* below takes the arguments a, the sky s and the
\* locals l assigned so far and gives l with the next ones added.  l.at is
\* "run" while sampa runs and names the local being assigned when a math
\* function raises ValueError.  The code uses e twice, for the true
\* obliquity and then for the moon's topocentric elevation: they are
\* true_obliquity and e here.  It uses e0 twice as well: the second, the
\* moon's elevation before refraction, is e0_m.
SampaShift(a, s) ==
    [at |-> "run",
     year |-> ShiftedYear(a.year, a.month),
     month |-> ShiftedMonth(a.month),
     day |-> a.day * HoursPerDay + a.hour]

SampaJulianDay(a, s, l) ==
    l @@ [a |-> Century(l.year),
          b_for_jd |-> CenturyCorrection(Century(l.year)),
          jd |-> JulianDay(l.year, l.month, l.day,
                           CenturyCorrection(Century(l.year)))]

SampaObliquity(a, s, l) ==
    l @@ [true_obliquity |-> TrueObliquity(s.jme, s.de),
          p |-> MoonParallax(s.delta),
          u2 |-> ReducedLatitude(a.latitude)]

SampaObserverPosition(a, s, l) ==
    l @@ [x2 |-> ObserverX(l.u2, a.latitude, a.elevation),
          y |-> ObserverY(l.u2, a.latitude, a.elevation)]

SampaParallax(a, s, l) ==
    l @@ [da |-> ParallaxInRightAscension(l.x2, l.p, s.d, s.h)]

SampaTopocentric(a, s, l) ==
    l @@ [a_prime |-> s.a2 + l.da,
          d_prime |-> TopocentricDeclination(l.x2, l.y, l.p, s.d, s.h, l.da),
          h_prime |-> s.h - l.da]

SampaElevationOperand(a, s, l) ==
    l @@ [e0_arg |-> ElevationOperand(a.latitude, l.d_prime, l.h_prime)]

SampaElevation(a, s, l) ==
    IF AsinRaises(l.e0_arg) THEN [l EXCEPT !.at = "e0"]
    ELSE l @@ [e0_m |-> Degrees(Asin(l.e0_arg))]

SampaRefraction(a, s, l) ==
    IF l.at # "run" THEN l
    ELSE l @@ [de2 |-> MoonRefraction(a.pressure, a.temperature, l.e0_m),
               gamma |-> Gamma(a.latitude, l.d_prime, l.h_prime)]

SampaApparent(a, s, l) ==
    IF l.at # "run" THEN l
    ELSE l @@ [e |-> l.e0_m + l.de2,
               f_m |-> Azimuth(l.gamma)]

\* theta_m and the call of spa
SampaZenith(a, s, l) ==
    IF l.at # "run" THEN l
    ELSE l @@ [theta_m |-> Whole(90) - l.e,
               spa |-> SpaRun(SpaArgs(a), s.sun)]

\* an exception in spa ends sampa
SampaSun(a, s, l) ==
    IF l.at # "run" THEN l
    ELSE IF l.spa.loc.at # "return" THEN [l EXCEPT !.at = "spa"]
    ELSE l @@ [theta_s |-> l.spa.res.angles[2], f_s |-> l.spa.res.angles[3]]

SampaSeparationOperand(a, s, l) ==
    IF l.at # "run" \/ s.sep # Far THEN l
    ELSE l @@ [ems_arg |-> SeparationOperand(l.theta_s, l.theta_m, l.f_s, l.f_m)]

SampaSeparation(a, s, l) ==
    IF l.at # "run" THEN l
    ELSE IF s.sep # Far THEN l @@ [ems |-> s.sep, r_capital_s |-> s.sun.r]
    ELSE IF AcosRaises(l.ems_arg) THEN [l EXCEPT !.at = "ems"]
    ELSE l @@ [ems |-> Degrees(Acos(l.ems_arg)), r_capital_s |-> s.sun.r]

SampaRadii(a, s, l) ==
    IF l.at # "run" THEN l
    ELSE l @@ [r_s |-> SunRadius(l.r_capital_s),
               r_m |-> MoonRadius(l.e, l.p, s.delta)]

SampaNote(a, s, l) ==
    IF l.at # "run" THEN l
    ELSE l @@ [solar_eclipse |-> Classify(l.ems, l.r_m, l.r_s)]

\* the branch `if ems < r_m + r_s:` ... `else:` (partial eclipse)
Partial(l) ==
    l.at = "run" /\ l.ems < l.r_m + l.r_s /\ ~(l.ems <= Abs(l.r_m - l.r_s))

\* s, m and the operand of the sqrt that gives h
SampaChord(a, s, l) ==
    IF ~Partial(l) THEN l
    ELSE l @@ [s |-> Div(Mul(l.ems, l.ems) + Mul(l.r_s, l.r_s) - Mul(l.r_m, l.r_m),
                         2 * l.ems),
               m |-> Div(Mul(l.ems, l.ems) - Mul(l.r_s, l.r_s) + Mul(l.r_m, l.r_m),
                         2 * l.ems),
               h_arg |-> Mul(4 * Mul(l.ems, l.ems), Mul(l.r_s, l.r_s))
                           - PowN(Mul(l.ems, l.ems) + Mul(l.r_s, l.r_s)
                                    - Mul(l.r_m, l.r_m), 2)]

SampaHeight(a, s, l) ==
    IF ~Partial(l) THEN l
    ELSE IF SqrtRaises(l.h_arg) THEN [l EXCEPT !.at = "h"]
    ELSE l @@ [h |-> Div(Sqrt(l.h_arg), 2 * l.ems)]

SampaTriangles(a, s, l) ==
    IF ~Partial(l) THEN l
    ELSE l @@ [t_s |-> Mul(l.h, l.s), t_m |-> Mul(l.h, l.m)]

SampaSectorS(a, s, l) ==
    IF ~Partial(l) THEN l
    ELSE IF AcosRaises(Div(l.s, l.r_s)) THEN [l EXCEPT !.at = "a_s"]
    ELSE l @@ [a_s |-> Mul(Mul(l.r_s, l.r_s), Acos(Div(l.s, l.r_s)))]

SampaSectorM(a, s, l) ==
    IF ~Partial(l) THEN l
    ELSE IF AcosRaises(Div(l.m, l.r_m))
         THEN [l EXCEPT !.at = "a_m"] @@ [a_capital_1 |-> l.a_s - l.t_s]
    ELSE l @@ [a_capital_1 |-> l.a_s - l.t_s,
               a_m |-> Mul(Mul(l.r_m, l.r_m), Acos(Div(l.m, l.r_m)))]

SampaSegmentM(a, s, l) ==
    IF ~Partial(l) THEN l
    ELSE l @@ [a_capital_2 |-> l.a_m - l.t_m]

\* a_i in the three branches of `if ems < r_m + r_s:`
SampaOverlap(a, s, l) ==
    IF l.at # "run" THEN l
    ELSE l @@ [a_i |-> IF l.ems < l.r_m + l.r_s
                       THEN IF l.ems <= Abs(l.r_m - l.r_s)
                            THEN TotalOverlap(l.r_m)
                            ELSE l.a_capital_1 + l.a_capital_2
                       ELSE 0]

SampaUnshaded(a, s, l) ==
    IF l.at # "run" THEN l
    ELSE l @@ [a_sul |-> UnshadedArea(l.r_s, l.a_i)]

SampaPercent(a, s, l) ==
    IF l.at # "run" THEN l
    ELSE l @@ [a_sul_percent |-> UnshadedPercent(l.a_sul, l.r_s)]

\* the call of bird
SampaIrradiance(a, s, l) ==
    IF l.at # "run" THEN l
    ELSE l @@ [bird |-> BirdRun(BirdArgs(a, l.r_capital_s, l.theta_s,
                                         l.a_sul_percent))]

\* `I_e = irradiance[1], irradiance[4], irradiance[2], irradiance[5],
\* irradiance[3], irradiance[6]` (indices from 0)
SampaIe(a, s, l) ==
    IF l.at # "run" THEN l
    ELSE l @@ [I_e |-> <<l.bird.res[2], l.bird.res[5], l.bird.res[3],
                         l.bird.res[6], l.bird.res[4], l.bird.res[7]>>]

\* the locals of sampa once the moon's topocentric elevation is refracted
SampaMoonLocals(a, s) ==
    SampaApparent(a, s, SampaRefraction(a, s, SampaElevation(a, s,
    SampaElevationOperand(a, s, SampaTopocentric(a, s, SampaParallax(a, s,
    SampaObserverPosition(a, s, SampaObliquity(a, s, SampaJulianDay(a, s,
    SampaShift(a, s))))))))))

\* the locals of sampa when it ended
SampaLocals(a, s) ==
    SampaIe(a, s, SampaIrradiance(a, s, SampaPercent(a, s, SampaUnshaded(a, s,
    SampaOverlap(a, s, SampaSegmentM(a, s, SampaSectorM(a, s, SampaSectorS(a, s,
    SampaTriangles(a, s, SampaHeight(a, s, SampaChord(a, s, SampaNote(a, s,
    SampaRadii(a, s, SampaSeparation(a, s, SampaSeparationOperand(a, s,
    SampaSun(a, s, SampaZenith(a, s,
    SampaMoonLocals(a, s))))))))))))))))))

\* `return (theta_s, f_s, theta_m, f_m, d_prime, h_prime, a_prime, e),
\* (r_s, r_m, a_sul, a_sul_percent, I_e, solar_eclipse)`; e is by then the
\* moon's topocentric elevation
SampaReturn(s, l) ==
    IF l.at # "run" THEN [loc |-> l, res |-> Raised]
    ELSE [loc |-> [l EXCEPT !.at = "return"],
          res |-> [first |-> <<l.theta_s, l.f_s, l.theta_m, l.f_m, l.d_prime,
                               l.h_prime, l.a_prime, l.e>>,
                   second |-> <<l.r_s, l.r_m, l.a_sul, l.a_sul_percent, l.I_e,
                                l.solar_eclipse>>]]

\* the locals of sampa when it ended and its result
SampaRun(a, s) == SampaReturn(s, SampaLocals(a, s))

(***************************************************************************)
(* solpos.solpos: the day count of lines 71-96 and, from line 119 on, the   *)
(* trigonometry of the sun's position.  a holds the arguments year, month, *)
(* day, hour, minute, second, timezone, latitude, longitude, pressure,     *)
(* temperature and interval; s holds what the almanac algorithm of lines   *)
(* 97-118 delivers for the call's date, time and longitude: the            *)
(* declination declin and the hour angle hrang, which the code has brought *)
(* into [-180, 180].  The shadow-band factor, prime and unprime and the    *)
(* extraterrestrial irradiances are not carried.                           *)
(***************************************************************************)
\* month_days[0][month] for every leap: the row of the common year
MonthDaysCommon(leap, month) ==
    <<0, 0, 31, 59, 90, 120, 151, 181, 212, 243, 273, 304, 334>>[month + 1]

\* `month_days[leap][month]`: the days of the year before the month
MonthDays(leap, month) ==
    IF leap = 0
    THEN <<0, 0, 31, 59, 90, 120, 151, 181, 212, 243, 273, 304, 334>>[month + 1]
    ELSE <<0, 0, 31, 60, 91, 121, 152, 182, 213, 244, 274, 305, 335>>[month + 1]

\* `((year % 4) == 0) and (((year % 100) != 0) or ((year % 400) == 0))`
LeapYear(year) == year % 4 = 0 /\ (year % 100 # 0 \/ year % 400 = 0)

\* daynum: `day + month_days[0][month]`, and one more after February of a
\* leap year
DayNum(year, month, day) ==
    day + MonthDays(0, month) + (IF LeapYear(year) /\ month > 2 THEN 1 ELSE 0)

\* `month = 12`, `while daynum <= month_days[leap][month]: month -= 1`, from
\* month on
RECURSIVE MonthOfDayNum(_, _, _)
MonthOfDayNum(daynum, leap, month) ==
    IF daynum <= MonthDays(leap, month)
    THEN MonthOfDayNum(daynum, leap, month - 1)
    ELSE month

\* utime in hours: `hour * 3600 + minute * 60 + second - interval / 2`
\* seconds, `/ 3600. - timezone`
Utime(hour, minute, second, interval, timezone) ==
    Div(hour * 3600 + minute * 60 + second - interval \div 2, Whole(3600))
      - timezone

\* julday: `32916.5 + (delta * 365.) + leap + daynum + utime / 24.` with
\* `delta = year - 1949` and `leap = int(delta / 4)`
Julday(year, daynum, utime) ==
    Dec(329165, 1)
      + Whole((year - 1949) * 365 + Truncate(year - 1949, 4) + daynum)
      + Div(utime, Whole(24))

\* the operand of an acos as handed over unclamped
NoClampUnit(x) == x

\* `if abs(cz) > 1: cz = 1 if cz >= 0 else -1`, and for ca
\* `if ca > 1: ca = 1. elif ca < -1: ca = -1.0`
ClampUnit(x) == IF x > S THEN S ELSE IF x < -S THEN -S ELSE x

\* `if zenetr > 99: zenetr = 99`
CapZenith(zenetr) == IF zenetr > Whole(99) THEN Whole(99) ELSE zenetr

\* `if elevref < -9: elevref = -9`
FloorElevation(elevref) == IF elevref < -Whole(9) THEN -Whole(9) ELSE elevref

\* the half-day arc for `abs(cdcl) >= 0.001`: 180 below -1, 0 above 1, else
\* the acos
HalfDayArc(cssha) ==
    IF cssha < -S THEN Whole(180)
    ELSE IF cssha > S THEN 0
    ELSE Degrees(Acos(cssha))

\* the half-day arc at a pole: 180 when declination and latitude are on the
\* same side, else 0
PolarHalfDayArc(declin, latitude) ==
    IF (declin >= 0 /\ latitude > 0) \/ (declin < 0 /\ latitude < 0)
    THEN Whole(180) ELSE 0

\* `while tstfix > 720: tstfix -= 1440`, `while tstfix < -720: tstfix += 1440`
RECURSIVE WrapMinutes(_)
WrapMinutes(tstfix) ==
    IF tstfix > Whole(720) THEN WrapMinutes(tstfix - Whole(1440))
    ELSE IF tstfix < -Whole(720) THEN WrapMinutes(tstfix + Whole(1440))
    ELSE tstfix

\* the sunrise before the sunset sentinel swap: both sentinels as for the
\* polar day
SunriseOneSentinel(ssha, tstfix) ==
    IF ssha <= Whole(1) \/ ssha >= Whole(179) THEN -Whole(2999)
    ELSE Whole(720) - 4 * ssha - tstfix

\* sretr: 2999 when the sun never rises, -2999 when it never sets
Sunrise(ssha, tstfix) ==
    IF ssha <= Whole(1) THEN Whole(2999)
    ELSE IF ssha >= Whole(179) THEN -Whole(2999)
    ELSE Whole(720) - 4 * ssha - tstfix

\* ssetr: -2999 when the sun never rises, 2999 when it never sets
Sunset(ssha, tstfix) ==
    IF ssha <= Whole(1) THEN -Whole(2999)
    ELSE IF ssha >= Whole(179) THEN Whole(2999)
    ELSE Whole(720) + 4 * ssha - tstfix

\* 58.1 / t - 0.07 / t^3 + 0.000086 / t^5 for u = 1 / t
RefcorHigh(u) ==
    Mul(Dec(581, 1), u) - Mul(Dec(7, 2), PowN(u, 3))
      + Div(Mul(Mul(Dec(86, 4), PowN(u, 3)), PowN(u, 2)), Whole(100))

\* 1735 + e * (-518.2 + e * (103.4 + e * (-12.79 + e * 0.711)))
RefcorLow(elevetr) ==
    Whole(1735)
      + Mul(elevetr, -Dec(5182, 1)
          + Mul(elevetr, Dec(1034, 1)
              + Mul(elevetr, -Dec(1279, 2) + Mul(elevetr, Dec(711, 3)))))

\* refcor in arc seconds for elevetr <= 85
RefcorArcSeconds(elevetr) ==
    IF elevetr >= Whole(5) THEN RefcorHigh(Div(S, Tan(Radians(elevetr))))
    ELSE IF elevetr >= -Dec(575, 3) THEN RefcorLow(elevetr)
    ELSE Div(-Dec(20774, 3), Tan(Radians(elevetr)))

\* `prestemp = (pressure * 283) / (1013 * (273 + temperature))`
Prestemp(pressure, temperature) ==
    Mul(Div(pressure, Whole(1013)), Div(Whole(283), Whole(273) + temperature))

\* refcor in degrees
Refcor(elevetr, pressure, temperature) ==
    IF elevetr > Whole(85) THEN 0
    ELSE Div(Mul(RefcorArcSeconds(elevetr), Prestemp(pressure, temperature)),
             Whole(3600))

\* the air mass computed down to the horizon only
AirMassToHorizon(zenref) == zenref > Whole(90)

\* `if zenref > 93`: the air mass is not computed
BelowAirMassRange(zenref) == zenref > Whole(93)

\* the base of the power in the Kasten-Young formula
AirMassBase(zenref) == Dec(9607995, 5) - zenref

\* 1 / (cos(zenref) + 0.50572 * (96.07995 - zenref) ** -1.6364)
KastenYoung(zenref) ==
    Div(S, Cos(Radians(zenref))
             + Mul(Dec(50572, 5), Pow(AirMassBase(zenref), -Dec(16364, 4))))

\* The locals of solpos, assigned in the order of the code as for spa.
\* leap is first the row of month_days (line 77 or 79)
SolposDayNum(a, s) ==
    [at |-> "run",
     daynum |-> DayNum(a.year, a.month, a.day),
     leap |-> IF LeapYear(a.year) THEN 1 ELSE 0]

SolposMonth(a, s, l) == l @@ [month |-> MonthOfDayNum(l.daynum, l.leap, 12)]

\* and then the count of the leap days (line 95)
SolposJulday(a, s, l) ==
    [l EXCEPT !.leap = Truncate(a.year - 1949, 4)]
      @@ [utime |-> Utime(a.hour, a.minute, a.second, a.interval, a.timezone),
          delta |-> a.year - 1949,
          julday |-> Julday(a.year, l.daynum,
                            Utime(a.hour, a.minute, a.second, a.interval,
                                  a.timezone))]

SolposTrig(a, s, l) ==
    l @@ [tdat_cd |-> Cos(Radians(s.declin)),
          tdat_ch |-> Cos(Radians(s.hrang)),
          tdat_cl |-> Cos(Radians(a.latitude)),
          tdat_sd |-> Sin(Radians(s.declin)),
          tdat_sl |-> Sin(Radians(a.latitude))]

\* cz_raw is cz as line 124 assigns it, cz what the acos of line 130 is given
SolposZenithOperand(a, s, l) ==
    l @@ [cz_raw |-> Mul(l.tdat_sd, l.tdat_sl)
                       + Mul(Mul(l.tdat_cd, l.tdat_cl), l.tdat_ch)]

SolposZenithClamp(a, s, l) == l @@ [cz |-> ClampUnit(l.cz_raw)]

\* zenetr_raw is zenetr as line 130 assigns it
SolposZenith(a, s, l) ==
    IF AcosRaises(l.cz) THEN [l EXCEPT !.at = "zenetr"]
    ELSE l @@ [zenetr_raw |-> Degrees(Acos(l.cz))]

SolposElevation(a, s, l) ==
    IF l.at # "run" THEN l
    ELSE l @@ [zenetr |-> CapZenith(l.zenetr_raw),
               elevetr |-> Whole(90) - CapZenith(l.zenetr_raw),
               cdcl |-> Mul(l.tdat_cd, l.tdat_cl)]

\* cssha is assigned only when `abs(cdcl) >= 0.001`
SolposHalfDayOperand(a, s, l) ==
    IF l.at # "run" \/ Abs(l.cdcl) < Dec(1, 3) THEN l
    ELSE l @@ [cssha |-> Div(Mul(-l.tdat_sl, l.tdat_sd), l.cdcl)]

SolposHalfDay(a, s, l) ==
    IF l.at # "run" THEN l
    ELSE IF Abs(l.cdcl) >= Dec(1, 3)
         THEN l @@ [ssha |-> HalfDayArc(l.cssha)]
         ELSE l @@ [ssha |-> PolarHalfDayArc(s.declin, a.latitude)]

SolposTime(a, s, l) ==
    IF l.at # "run" THEN l
    ELSE l @@ [tst |-> (Whole(180) + s.hrang) * 4,
               tstfix |-> WrapMinutes((Whole(180) + s.hrang) * 4
                                        - a.hour * 60 - a.minute
                                        - Div(a.second, Whole(60))
                                        + Div(a.interval, Whole(120)))]

SolposSunTimes(a, s, l) ==
    IF l.at # "run" THEN l
    ELSE l @@ [eqntim |-> l.tstfix + 60 * a.timezone - 4 * a.longitude,
               sretr |-> Sunrise(l.ssha, l.tstfix),
               ssetr |-> Sunset(l.ssha, l.tstfix),
               ce |-> Cos(Radians(l.elevetr)),
               se |-> Sin(Radians(l.elevetr))]

SolposAzimuthDivisor(a, s, l) ==
    IF l.at # "run" THEN l
    ELSE l @@ [cecl |-> Mul(l.ce, l.tdat_cl)]

\* ca_raw is ca as line 172 assigns it, ca what the acos of line 177 is
\* given; both are assigned only when `abs(cecl) >= 0.001`
SolposAzimuthOperand(a, s, l) ==
    IF l.at # "run" \/ Abs(l.cecl) < Dec(1, 3) THEN l
    ELSE l @@ [ca_raw |-> Div(Mul(l.se, l.tdat_sl) - l.tdat_sd, l.cecl)]

SolposAzimuthClamp(a, s, l) ==
    IF l.at # "run" \/ Abs(l.cecl) < Dec(1, 3) THEN l
    ELSE l @@ [ca |-> ClampUnit(l.ca_raw)]

SolposAzimuth(a, s, l) ==
    IF l.at # "run" THEN l
    ELSE IF Abs(l.cecl) < Dec(1, 3) THEN l @@ [azim |-> Whole(180)]
    ELSE IF AcosRaises(l.ca) THEN [l EXCEPT !.at = "azim"]
    ELSE l @@ [azim |-> IF s.hrang > 0
                        THEN Whole(360) - (Whole(180) - Degrees(Acos(l.ca)))
                        ELSE Whole(180) - Degrees(Acos(l.ca))]

SolposRefcor(a, s, l) ==
    IF l.at # "run" THEN l
    ELSE l @@ [refcor |-> Refcor(l.elevetr, a.pressure, a.temperature)]

SolposRefracted(a, s, l) ==
    IF l.at # "run" THEN l
    ELSE l @@ [elevref |-> FloorElevation(l.elevetr + l.refcor),
               zenref |-> Whole(90) - FloorElevation(l.elevetr + l.refcor)]

SolposAirMass(a, s, l) ==
    IF l.at # "run" THEN l
    ELSE IF BelowAirMassRange(l.zenref) THEN l @@ [amass |-> -S]
    ELSE l @@ [amass |-> KastenYoung(l.zenref)]

SolposPressureAirMass(a, s, l) ==
    IF l.at # "run" THEN l
    ELSE IF BelowAirMassRange(l.zenref) THEN l @@ [ampress |-> -S]
    ELSE l @@ [ampress |-> Div(Mul(l.amass, a.pressure), Whole(1013))]

\* the locals of solpos when it ended
SolposLocals(a, s) ==
    SolposPressureAirMass(a, s, SolposAirMass(a, s, SolposRefracted(a, s,
    SolposRefcor(a, s, SolposAzimuth(a, s, SolposAzimuthClamp(a, s,
    SolposAzimuthOperand(a, s, SolposAzimuthDivisor(a, s,
    SolposSunTimes(a, s, SolposTime(a, s, SolposHalfDay(a, s,
    SolposHalfDayOperand(a, s, SolposElevation(a, s, SolposZenith(a, s,
    SolposZenithClamp(a, s, SolposZenithOperand(a, s,
    SolposTrig(a, s, SolposJulday(a, s, SolposMonth(a, s,
    SolposDayNum(a, s))))))))))))))))))))

\* solpos's outcome from its locals: Raised, or the elements of the returned
\* tuple that are carried
SolposReturn(s, l) ==
    IF l.at # "run" THEN [loc |-> l, res |-> Raised]
    ELSE [loc |-> [l EXCEPT !.at = "return"],
          res |-> [amass |-> l.amass, ampress |-> l.ampress,
                   zenref |-> l.zenref, azim |-> l.azim,
                   elevetr |-> l.elevetr, elevref |-> l.elevref,
                   sretr |-> l.sretr, ssetr |-> l.ssetr,
                   declin |-> s.declin, eqntim |-> l.eqntim]]

\* the locals of solpos when it ended and its result
SolposRun(a, s) == SolposReturn(s, SolposLocals(a, s))

(***************************************************************************)
(* The periodic series.  The nutation in longitude dy and in obliquity de  *)
(* and the true obliquity are computed at four sites, each from tables and *)
(* polynomials of its own: spa.py's _sideral_time, _geocentric_ra_and_d    *)
(* and spa, and sampa.py's sampa; sampa also sums the moon's series for    *)
(* longitude, distance and latitude.  The amplitudes of the nutation       *)
(* tables are kept in tenths of their unit (0.0001 arc seconds), those of  *)
(* the moon's tables in their unit (0.000001 degrees, 0.001 km); both are  *)
(* whole numbers, and so are the sums.  Angles are in degrees.  The sine   *)
(* of a sum of whole multiples of angles is taken of the sum reduced mod   *)
(* 360, and the fundamental arguments of the nutation are reduced mod 360  *)
(* where the code multiplies them as they are: the multipliers are whole,  *)
(* so the sines are the same, and the numbers stay small.  jd is in hours; *)
(* the dt of the code, 67 seconds, is under that and left out of jde.      *)
(***************************************************************************)
\* a coefficient a table does not have, and one it has: the tables with
\* missing coefficients hold each cell as a tuple, empty for Python's None
None == <<>>

Some(value) == <<value>>

\* the transform with 1 in the place of 0
OneIfNone(value) == IF value = None THEN 1 ELSE value[1]

\* `lambda value: 0 if value is None else value`
ZeroIfNone(value) == IF value = None THEN 0 ELSE value[1]

\* `for row in table: new.append(list(map(lambda ..., row)))`
ReplaceNone(table) ==
    [i \in 1..Len(table) |->
        [j \in 1..Len(table[i]) |-> ZeroIfNone(table[i][j])]]

\* the functions of spa.py that compute the nutation
SpaSites == {"_sideral_time", "_geocentric_ra_and_d", "spa"}

\* the functions that compute the nutation
Sites == SpaSites \cup {"sampa"}

\* x / n for a whole n > 0, rounded to the nearest unit
DivWhole(x, n) == Sgn(x) * ((Abs(x) + n \div 2) \div n)

\* spa.py: the multipliers y of the five arguments, a row a term
coefficients_for_sin_terms(site) ==
    CASE site = "_sideral_time" ->    \* lines 46-61
        <<
         <<0, 0, 0, 0, 1>>, <<-2, 0, 0, 2, 2>>, <<0, 0, 0, 2, 2>>,
         <<0, 0, 0, 0, 2>>, <<0, 1, 0, 0, 0>>, <<0, 0, 1, 0, 0>>,
         <<-2, 1, 0, 2, 2>>, <<0, 0, 0, 2, 1>>, <<0, 0, 1, 2, 2>>,
         <<-2, -1, 0, 2, 2>>, <<-2, 0, 1, 0, 0>>, <<-2, 0, 0, 2, 1>>,
         <<0, 0, -1, 2, 2>>, <<2, 0, 0, 0, 0>>, <<0, 0, 1, 0, 1>>,
         <<2, 0, -1, 2, 2>>, <<0, 0, -1, 0, 1>>, <<0, 0, 1, 2, 1>>,
         <<-2, 0, 2, 0, 0>>, <<0, 0, -2, 2, 1>>, <<2, 0, 0, 2, 2>>,
         <<0, 0, 2, 2, 2>>, <<0, 0, 2, 0, 0>>, <<-2, 0, 1, 2, 2>>,
         <<0, 0, 0, 2, 0>>, <<-2, 0, 0, 2, 0>>, <<0, 0, -1, 2, 1>>,
         <<0, 2, 0, 0, 0>>, <<2, 0, -1, 0, 1>>, <<-2, 2, 0, 2, 2>>,
         <<0, 1, 0, 0, 1>>, <<-2, 0, 1, 0, 1>>, <<0, -1, 0, 0, 1>>,
         <<0, 0, 2, -2, 0>>, <<2, 0, -1, 2, 1>>, <<2, 0, 1, 2, 2>>,
         <<0, 1, 0, 2, 2>>, <<-2, 1, 1, 0, 0>>, <<0, -1, 0, 2, 2>>,
         <<2, 0, 0, 2, 1>>, <<2, 0, 1, 0, 0>>, <<-2, 0, 2, 2, 2>>,
         <<-2, 0, 1, 2, 1>>, <<2, 0, -2, 0, 1>>, <<2, 0, 0, 0, 1>>,
         <<0, -1, 1, 0, 0>>, <<-2, -1, 0, 2, 1>>, <<-2, 0, 0, 0, 1>>,
         <<0, 0, 2, 2, 1>>, <<-2, 0, 2, 0, 1>>, <<-2, 1, 0, 2, 1>>,
         <<0, 0, 1, -2, 0>>, <<-1, 0, 1, 0, 0>>, <<-2, 1, 0, 0, 0>>,
         <<1, 0, 0, 0, 0>>, <<0, 0, 1, 2, 0>>, <<0, 0, -2, 2, 2>>,
         <<-1, -1, 1, 0, 0>>, <<0, 1, 1, 0, 0>>, <<0, -1, 1, 2, 2>>,
         <<2, -1, -1, 2, 2>>, <<0, 0, 3, 2, 2>>, <<2, -1, 0, 2, 2>>
        >>
      [] site = "_geocentric_ra_and_d" ->    \* lines 171-186
        <<
         <<0, 0, 0, 0, 1>>, <<-2, 0, 0, 2, 2>>, <<0, 0, 0, 2, 2>>,
         <<0, 0, 0, 0, 2>>, <<0, 1, 0, 0, 0>>, <<0, 0, 1, 0, 0>>,
         <<-2, 1, 0, 2, 2>>, <<0, 0, 0, 2, 1>>, <<0, 0, 1, 2, 2>>,
         <<-2, -1, 0, 2, 2>>, <<-2, 0, 1, 0, 0>>, <<-2, 0, 0, 2, 1>>,
         <<0, 0, -1, 2, 2>>, <<2, 0, 0, 0, 0>>, <<0, 0, 1, 0, 1>>,
         <<2, 0, -1, 2, 2>>, <<0, 0, -1, 0, 1>>, <<0, 0, 1, 2, 1>>,
         <<-2, 0, 2, 0, 0>>, <<0, 0, -2, 2, 1>>, <<2, 0, 0, 2, 2>>,
         <<0, 0, 2, 2, 2>>, <<0, 0, 2, 0, 0>>, <<-2, 0, 1, 2, 2>>,
         <<0, 0, 0, 2, 0>>, <<-2, 0, 0, 2, 0>>, <<0, 0, -1, 2, 1>>,
         <<0, 2, 0, 0, 0>>, <<2, 0, -1, 0, 1>>, <<-2, 2, 0, 2, 2>>,
         <<0, 1, 0, 0, 1>>, <<-2, 0, 1, 0, 1>>, <<0, -1, 0, 0, 1>>,
         <<0, 0, 2, -2, 0>>, <<2, 0, -1, 2, 1>>, <<2, 0, 1, 2, 2>>,
         <<0, 1, 0, 2, 2>>, <<-2, 1, 1, 0, 0>>, <<0, -1, 0, 2, 2>>,
         <<2, 0, 0, 2, 1>>, <<2, 0, 1, 0, 0>>, <<-2, 0, 2, 2, 2>>,
         <<-2, 0, 1, 2, 1>>, <<2, 0, -2, 0, 1>>, <<2, 0, 0, 0, 1>>,
         <<0, -1, 1, 0, 0>>, <<-2, -1, 0, 2, 1>>, <<-2, 0, 0, 0, 1>>,
         <<0, 0, 2, 2, 1>>, <<-2, 0, 2, 0, 1>>, <<-2, 1, 0, 2, 1>>,
         <<0, 0, 1, -2, 0>>, <<-1, 0, 1, 0, 0>>, <<-2, 1, 0, 0, 0>>,
         <<1, 0, 0, 0, 0>>, <<0, 0, 1, 2, 0>>, <<0, 0, -2, 2, 2>>,
         <<-1, -1, 1, 0, 0>>, <<0, 1, 1, 0, 0>>, <<0, -1, 1, 2, 2>>,
         <<2, -1, -1, 2, 2>>, <<0, 0, 3, 2, 2>>, <<2, -1, 0, 2, 2>>
        >>
      [] site = "spa" ->    \* lines 493-508
        <<
         <<0, 0, 0, 0, 1>>, <<-2, 0, 0, 2, 2>>, <<0, 0, 0, 2, 2>>,
         <<0, 0, 0, 0, 2>>, <<0, 1, 0, 0, 0>>, <<0, 0, 1, 0, 0>>,
         <<-2, 1, 0, 2, 2>>, <<0, 0, 0, 2, 1>>, <<0, 0, 1, 2, 2>>,
         <<-2, -1, 0, 2, 2>>, <<-2, 0, 1, 0, 0>>, <<-2, 0, 0, 2, 1>>,
         <<0, 0, -1, 2, 2>>, <<2, 0, 0, 0, 0>>, <<0, 0, 1, 0, 1>>,
         <<2, 0, -1, 2, 2>>, <<0, 0, -1, 0, 1>>, <<0, 0, 1, 2, 1>>,
         <<-2, 0, 2, 0, 0>>, <<0, 0, -2, 2, 1>>, <<2, 0, 0, 2, 2>>,
         <<0, 0, 2, 2, 2>>, <<0, 0, 2, 0, 0>>, <<-2, 0, 1, 2, 2>>,
         <<0, 0, 0, 2, 0>>, <<-2, 0, 0, 2, 0>>, <<0, 0, -1, 2, 1>>,
         <<0, 2, 0, 0, 0>>, <<2, 0, -1, 0, 1>>, <<-2, 2, 0, 2, 2>>,
         <<0, 1, 0, 0, 1>>, <<-2, 0, 1, 0, 1>>, <<0, -1, 0, 0, 1>>,
         <<0, 0, 2, -2, 0>>, <<2, 0, -1, 2, 1>>, <<2, 0, 1, 2, 2>>,
         <<0, 1, 0, 2, 2>>, <<-2, 1, 1, 0, 0>>, <<0, -1, 0, 2, 2>>,
         <<2, 0, 0, 2, 1>>, <<2, 0, 1, 0, 0>>, <<-2, 0, 2, 2, 2>>,
         <<-2, 0, 1, 2, 1>>, <<2, 0, -2, 0, 1>>, <<2, 0, 0, 0, 1>>,
         <<0, -1, 1, 0, 0>>, <<-2, -1, 0, 2, 1>>, <<-2, 0, 0, 0, 1>>,
         <<0, 0, 2, 2, 1>>, <<-2, 0, 2, 0, 1>>, <<-2, 1, 0, 2, 1>>,
         <<0, 0, 1, -2, 0>>, <<-1, 0, 1, 0, 0>>, <<-2, 1, 0, 0, 0>>,
         <<1, 0, 0, 0, 0>>, <<0, 0, 1, 2, 0>>, <<0, 0, -2, 2, 2>>,
         <<-1, -1, 1, 0, 0>>, <<0, 1, 1, 0, 0>>, <<0, -1, 1, 2, 2>>,
         <<2, -1, -1, 2, 2>>, <<0, 0, 3, 2, 2>>, <<2, -1, 0, 2, 2>>
        >>

\* sampa.py lines 241-256: the multipliers y of the five arguments, a row a term
sampa_coefficients_for_sin_terms ==
    <<
     <<0, 0, 0, 0, 1>>, <<-2, 0, 0, 2, 2>>, <<0, 0, 0, 2, 2>>,
     <<0, 0, 0, 0, 2>>, <<0, 1, 0, 0, 0>>, <<0, 0, 1, 0, 0>>,
     <<-2, 1, 0, 2, 2>>, <<0, 0, 0, 2, 1>>, <<0, 0, 1, 2, 2>>,
     <<-2, -1, 0, 2, 2>>, <<-2, 0, 1, 0, 0>>, <<-2, 0, 0, 2, 1>>,
     <<0, 0, -1, 2, 2>>, <<2, 0, 0, 0, 0>>, <<0, 0, 1, 0, 1>>,
     <<2, 0, -1, 2, 2>>, <<0, 0, -1, 0, 1>>, <<0, 0, 1, 2, 1>>,
     <<-2, 0, 2, 0, 0>>, <<0, 0, -2, 2, 1>>, <<2, 0, 0, 2, 2>>,
     <<0, 0, 2, 2, 2>>, <<0, 0, 2, 0, 0>>, <<-2, 0, 1, 2, 2>>,
     <<0, 0, 0, 2, 0>>, <<-2, 0, 0, 2, 0>>, <<0, 0, -1, 2, 1>>,
     <<0, 2, 0, 0, 0>>, <<2, 0, -1, 0, 1>>, <<-2, 2, 0, 2, 2>>,
     <<0, 1, 0, 0, 1>>, <<-2, 0, 1, 0, 1>>, <<0, -1, 0, 0, 1>>,
     <<0, 0, 2, -2, 0>>, <<2, 0, -1, 2, 1>>, <<2, 0, 1, 2, 2>>,
     <<0, 1, 0, 2, 2>>, <<-2, 1, 1, 0, 0>>, <<0, -1, 0, 2, 2>>,
     <<2, 0, 0, 2, 1>>, <<2, 0, 1, 0, 0>>, <<-2, 0, 2, 2, 2>>,
     <<-2, 0, 1, 2, 1>>, <<2, 0, -2, 0, 1>>, <<2, 0, 0, 0, 1>>,
     <<0, -1, 1, 0, 0>>, <<-2, -1, 0, 2, 1>>, <<-2, 0, 0, 0, 1>>,
     <<0, 0, 2, 2, 1>>, <<-2, 0, 2, 0, 1>>, <<-2, 1, 0, 2, 1>>,
     <<0, 0, 1, -2, 0>>, <<-1, 0, 1, 0, 0>>, <<-2, 1, 0, 0, 0>>,
     <<1, 0, 0, 0, 0>>, <<0, 0, 1, 2, 0>>, <<0, 0, -2, 2, 2>>,
     <<-1, -1, 1, 0, 0>>, <<0, 1, 1, 0, 0>>, <<0, -1, 1, 2, 2>>,
     <<2, -1, -1, 2, 2>>, <<0, 0, 3, 2, 2>>, <<2, -1, 0, 2, 2>>
    >>

\* spa.py: the amplitude a and rate b of each term of dy, in tenths
coefficients_for_dy(site) ==
    CASE site = "_sideral_time" ->    \* lines 63-78
        <<
         <<Some(-1719960), Some(-1742)>>, <<Some(-131870), Some(-16)>>,
         <<Some(-22740), Some(-2)>>, <<Some(20620), Some(2)>>,
         <<Some(14260), Some(-34)>>, <<Some(7120), Some(1)>>,
         <<Some(-5170), Some(12)>>, <<Some(-3860), Some(-4)>>,
         <<Some(-3010), None>>, <<Some(2170), Some(-5)>>,
         <<Some(-1580), None>>, <<Some(1290), Some(1)>>, <<Some(1230), None>>,
         <<Some(630), None>>, <<Some(630), Some(1)>>, <<Some(-590), None>>,
         <<Some(-580), Some(-1)>>, <<Some(-510), None>>, <<Some(480), None>>,
         <<Some(460), None>>, <<Some(-380), None>>, <<Some(-310), None>>,
         <<Some(290), None>>, <<Some(290), None>>, <<Some(260), None>>,
         <<Some(-220), None>>, <<Some(210), None>>, <<Some(170), Some(-1)>>,
         <<Some(160), None>>, <<Some(-160), Some(1)>>, <<Some(-150), None>>,
         <<Some(-130), None>>, <<Some(-120), None>>, <<Some(110), None>>,
         <<Some(-100), None>>, <<Some(-80), None>>, <<Some(70), None>>,
         <<Some(-70), None>>, <<Some(-70), None>>, <<Some(-70), None>>,
         <<Some(60), None>>, <<Some(60), None>>, <<Some(60), None>>,
         <<Some(-60), None>>, <<Some(-60), None>>, <<Some(50), None>>,
         <<Some(-50), None>>, <<Some(-50), None>>, <<Some(-50), None>>,
         <<Some(40), None>>, <<Some(40), None>>, <<Some(40), None>>,
         <<Some(-40), None>>, <<Some(-40), None>>, <<Some(-40), None>>,
         <<Some(30), None>>, <<Some(-30), None>>, <<Some(-30), None>>,
         <<Some(-30), None>>, <<Some(-30), None>>, <<Some(-30), None>>,
         <<Some(-30), None>>, <<Some(-30), None>>
        >>
      [] site = "_geocentric_ra_and_d" ->    \* lines 188-203
        <<
         <<Some(-1719960), Some(-1742)>>, <<Some(-131870), Some(-16)>>,
         <<Some(-22740), Some(-2)>>, <<Some(20620), Some(2)>>,
         <<Some(14260), Some(-34)>>, <<Some(7120), Some(1)>>,
         <<Some(-5170), Some(12)>>, <<Some(-3860), Some(-4)>>,
         <<Some(-3010), None>>, <<Some(2170), Some(-5)>>,
         <<Some(-1580), None>>, <<Some(1290), Some(1)>>, <<Some(1230), None>>,
         <<Some(630), None>>, <<Some(630), Some(1)>>, <<Some(-590), None>>,
         <<Some(-580), Some(-1)>>, <<Some(-510), None>>, <<Some(480), None>>,
         <<Some(460), None>>, <<Some(-380), None>>, <<Some(-310), None>>,
         <<Some(290), None>>, <<Some(290), None>>, <<Some(260), None>>,
         <<Some(-220), None>>, <<Some(210), None>>, <<Some(170), Some(-1)>>,
         <<Some(160), None>>, <<Some(-160), Some(1)>>, <<Some(-150), None>>,
         <<Some(-130), None>>, <<Some(-120), None>>, <<Some(110), None>>,
         <<Some(-100), None>>, <<Some(-80), None>>, <<Some(70), None>>,
         <<Some(-70), None>>, <<Some(-70), None>>, <<Some(-70), None>>,
         <<Some(60), None>>, <<Some(60), None>>, <<Some(60), None>>,
         <<Some(-60), None>>, <<Some(-60), None>>, <<Some(50), None>>,
         <<Some(-50), None>>, <<Some(-50), None>>, <<Some(-50), None>>,
         <<Some(40), None>>, <<Some(40), None>>, <<Some(40), None>>,
         <<Some(-40), None>>, <<Some(-40), None>>, <<Some(-40), None>>,
         <<Some(30), None>>, <<Some(-30), None>>, <<Some(-30), None>>,
         <<Some(-30), None>>, <<Some(-30), None>>, <<Some(-30), None>>,
         <<Some(-30), None>>, <<Some(-30), None>>
        >>
      [] site = "spa" ->    \* lines 510-525
        <<
         <<Some(-1719960), Some(-1742)>>, <<Some(-131870), Some(-16)>>,
         <<Some(-22740), Some(-2)>>, <<Some(20620), Some(2)>>,
         <<Some(14260), Some(-34)>>, <<Some(7120), Some(1)>>,
         <<Some(-5170), Some(12)>>, <<Some(-3860), Some(-4)>>,
         <<Some(-3010), None>>, <<Some(2170), Some(-5)>>,
         <<Some(-1580), None>>, <<Some(1290), Some(1)>>, <<Some(1230), None>>,
         <<Some(630), None>>, <<Some(630), Some(1)>>, <<Some(-590), None>>,
         <<Some(-580), Some(-1)>>, <<Some(-510), None>>, <<Some(480), None>>,
         <<Some(460), None>>, <<Some(-380), None>>, <<Some(-310), None>>,
         <<Some(290), None>>, <<Some(290), None>>, <<Some(260), None>>,
         <<Some(-220), None>>, <<Some(210), None>>, <<Some(170), Some(-1)>>,
         <<Some(160), None>>, <<Some(-160), Some(1)>>, <<Some(-150), None>>,
         <<Some(-130), None>>, <<Some(-120), None>>, <<Some(110), None>>,
         <<Some(-100), None>>, <<Some(-80), None>>, <<Some(70), None>>,
         <<Some(-70), None>>, <<Some(-70), None>>, <<Some(-70), None>>,
         <<Some(60), None>>, <<Some(60), None>>, <<Some(60), None>>,
         <<Some(-60), None>>, <<Some(-60), None>>, <<Some(50), None>>,
         <<Some(-50), None>>, <<Some(-50), None>>, <<Some(-50), None>>,
         <<Some(40), None>>, <<Some(40), None>>, <<Some(40), None>>,
         <<Some(-40), None>>, <<Some(-40), None>>, <<Some(-40), None>>,
         <<Some(30), None>>, <<Some(-30), None>>, <<Some(-30), None>>,
         <<Some(-30), None>>, <<Some(-30), None>>, <<Some(-30), None>>,
         <<Some(-30), None>>, <<Some(-30), None>>
        >>

\* sampa.py lines 258-273: the amplitude a and rate b of each term of dy, in tenths
sampa_coefficients_for_dy ==
    <<
     <<Some(-1719960), Some(-1742)>>, <<Some(-131870), Some(-16)>>,
     <<Some(-22740), Some(-2)>>, <<Some(20620), Some(2)>>,
     <<Some(14260), Some(-34)>>, <<Some(7120), Some(1)>>,
     <<Some(-5170), Some(12)>>, <<Some(-3860), Some(-4)>>,
     <<Some(-3010), None>>, <<Some(2170), Some(-5)>>, <<Some(-1580), None>>,
     <<Some(1290), Some(1)>>, <<Some(1230), None>>, <<Some(630), None>>,
     <<Some(630), Some(1)>>, <<Some(-590), None>>, <<Some(-580), Some(-1)>>,
     <<Some(-510), None>>, <<Some(480), None>>, <<Some(460), None>>,
     <<Some(-380), None>>, <<Some(-310), None>>, <<Some(290), None>>,
     <<Some(290), None>>, <<Some(260), None>>, <<Some(-220), None>>,
     <<Some(210), None>>, <<Some(170), Some(-1)>>, <<Some(160), None>>,
     <<Some(-160), Some(1)>>, <<Some(-150), None>>, <<Some(-130), None>>,
     <<Some(-120), None>>, <<Some(110), None>>, <<Some(-100), None>>,
     <<Some(-80), None>>, <<Some(70), None>>, <<Some(-70), None>>,
     <<Some(-70), None>>, <<Some(-70), None>>, <<Some(60), None>>,
     <<Some(60), None>>, <<Some(60), None>>, <<Some(-60), None>>,
     <<Some(-60), None>>, <<Some(50), None>>, <<Some(-50), None>>,
     <<Some(-50), None>>, <<Some(-50), None>>, <<Some(40), None>>,
     <<Some(40), None>>, <<Some(40), None>>, <<Some(-40), None>>,
     <<Some(-40), None>>, <<Some(-40), None>>, <<Some(30), None>>,
     <<Some(-30), None>>, <<Some(-30), None>>, <<Some(-30), None>>,
     <<Some(-30), None>>, <<Some(-30), None>>, <<Some(-30), None>>,
     <<Some(-30), None>>
    >>

\* spa.py: the amplitude c and rate d of each term of de, in tenths
coefficients_for_de(site) ==
    CASE site = "_sideral_time" ->    \* lines 80-95
        <<
         <<Some(920250), Some(89)>>, <<Some(57360), Some(-31)>>,
         <<Some(9770), Some(-5)>>, <<Some(-8950), Some(5)>>,
         <<Some(540), Some(-1)>>, <<Some(-70), None>>,
         <<Some(2240), Some(-6)>>, <<Some(2000), None>>,
         <<Some(1290), Some(-1)>>, <<Some(-950), Some(3)>>, <<None, None>>,
         <<Some(-700), None>>, <<Some(-530), None>>, <<None, None>>,
         <<Some(-330), None>>, <<Some(260), None>>, <<Some(320), None>>,
         <<Some(270), None>>, <<None, None>>, <<Some(-240), None>>,
         <<Some(160), None>>, <<Some(130), None>>, <<None, None>>,
         <<Some(-120), None>>, <<None, None>>, <<None, None>>,
         <<Some(-100), None>>, <<None, None>>, <<Some(-80), None>>,
         <<Some(70), None>>, <<Some(90), None>>, <<Some(70), None>>,
         <<Some(60), None>>, <<None, None>>, <<Some(50), None>>,
         <<Some(30), None>>, <<Some(-30), None>>, <<None, None>>,
         <<Some(30), None>>, <<Some(30), None>>, <<None, None>>,
         <<Some(-30), None>>, <<Some(-30), None>>, <<Some(30), None>>,
         <<Some(30), None>>, <<None, None>>, <<Some(30), None>>,
         <<Some(30), None>>, <<Some(30), None>>, <<None, None>>,
         <<None, None>>, <<None, None>>, <<None, None>>, <<None, None>>,
         <<None, None>>, <<None, None>>, <<None, None>>, <<None, None>>,
         <<None, None>>, <<None, None>>, <<None, None>>, <<None, None>>,
         <<None, None>>
        >>
      [] site = "_geocentric_ra_and_d" ->    \* lines 205-220
        <<
         <<Some(920250), Some(89)>>, <<Some(57360), Some(-31)>>,
         <<Some(9770), Some(-5)>>, <<Some(-8950), Some(5)>>,
         <<Some(540), Some(-1)>>, <<Some(-70), None>>,
         <<Some(2240), Some(-6)>>, <<Some(2000), None>>,
         <<Some(1290), Some(-1)>>, <<Some(-950), Some(3)>>, <<None, None>>,
         <<Some(-700), None>>, <<Some(-530), None>>, <<None, None>>,
         <<Some(-330), None>>, <<Some(260), None>>, <<Some(320), None>>,
         <<Some(270), None>>, <<None, None>>, <<Some(-240), None>>,
         <<Some(160), None>>, <<Some(130), None>>, <<None, None>>,
         <<Some(-120), None>>, <<None, None>>, <<None, None>>,
         <<Some(-100), None>>, <<None, None>>, <<Some(-80), None>>,
         <<Some(70), None>>, <<Some(90), None>>, <<Some(70), None>>,
         <<Some(60), None>>, <<None, None>>, <<Some(50), None>>,
         <<Some(30), None>>, <<Some(-30), None>>, <<None, None>>,
         <<Some(30), None>>, <<Some(30), None>>, <<None, None>>,
         <<Some(-30), None>>, <<Some(-30), None>>, <<Some(30), None>>,
         <<Some(30), None>>, <<None, None>>, <<Some(30), None>>,
         <<Some(30), None>>, <<Some(30), None>>, <<None, None>>,
         <<None, None>>, <<None, None>>, <<None, None>>, <<None, None>>,
         <<None, None>>, <<None, None>>, <<None, None>>, <<None, None>>,
         <<None, None>>, <<None, None>>, <<None, None>>, <<None, None>>,
         <<None, None>>
        >>
      [] site = "spa" ->    \* lines 527-542
        <<
         <<Some(920250), Some(89)>>, <<Some(57360), Some(-31)>>,
         <<Some(9770), Some(-5)>>, <<Some(-8950), Some(5)>>,
         <<Some(540), Some(-1)>>, <<Some(-70), None>>,
         <<Some(2240), Some(-6)>>, <<Some(2000), None>>,
         <<Some(1290), Some(-1)>>, <<Some(-950), Some(3)>>, <<None, None>>,
         <<Some(-700), None>>, <<Some(-530), None>>, <<None, None>>,
         <<Some(-330), None>>, <<Some(260), None>>, <<Some(320), None>>,
         <<Some(270), None>>, <<None, None>>, <<Some(-240), None>>,
         <<Some(160), None>>, <<Some(130), None>>, <<None, None>>,
         <<Some(-120), None>>, <<None, None>>, <<None, None>>,
         <<Some(-100), None>>, <<None, None>>, <<Some(-80), None>>,
         <<Some(70), None>>, <<Some(90), None>>, <<Some(70), None>>,
         <<Some(60), None>>, <<None, None>>, <<Some(50), None>>,
         <<Some(30), None>>, <<Some(-30), None>>, <<None, None>>,
         <<Some(30), None>>, <<Some(30), None>>, <<None, None>>,
         <<Some(-30), None>>, <<Some(-30), None>>, <<Some(30), None>>,
         <<Some(30), None>>, <<None, None>>, <<Some(30), None>>,
         <<Some(30), None>>, <<Some(30), None>>, <<None, None>>,
         <<None, None>>, <<None, None>>, <<None, None>>, <<None, None>>,
         <<None, None>>, <<None, None>>, <<None, None>>, <<None, None>>,
         <<None, None>>, <<None, None>>, <<None, None>>, <<None, None>>,
         <<None, None>>
        >>

\* the table of spa with the rate of its first row misprinted
coefficients_for_de_misprinted ==
    [coefficients_for_de("spa") EXCEPT ![1] = <<Some(920250), Some(98)>>]

\* sampa.py lines 275-290: the amplitude c and rate d of each term of de, in tenths
sampa_coefficients_for_de ==
    <<
     <<Some(920250), Some(89)>>, <<Some(57360), Some(-31)>>,
     <<Some(9770), Some(-5)>>, <<Some(-8950), Some(5)>>,
     <<Some(540), Some(-1)>>, <<Some(-70), None>>, <<Some(2240), Some(-6)>>,
     <<Some(2000), None>>, <<Some(1290), Some(-1)>>, <<Some(-950), Some(3)>>,
     <<None, None>>, <<Some(-700), None>>, <<Some(-530), None>>,
     <<None, None>>, <<Some(-330), None>>, <<Some(260), None>>,
     <<Some(320), None>>, <<Some(270), None>>, <<None, None>>,
     <<Some(-240), None>>, <<Some(160), None>>, <<Some(130), None>>,
     <<None, None>>, <<Some(-120), None>>, <<None, None>>, <<None, None>>,
     <<Some(-100), None>>, <<None, None>>, <<Some(-80), None>>,
     <<Some(70), None>>, <<Some(90), None>>, <<Some(70), None>>,
     <<Some(60), None>>, <<None, None>>, <<Some(50), None>>,
     <<Some(30), None>>, <<Some(-30), None>>, <<None, None>>,
     <<Some(30), None>>, <<Some(30), None>>, <<None, None>>,
     <<Some(-30), None>>, <<Some(-30), None>>, <<Some(30), None>>,
     <<Some(30), None>>, <<None, None>>, <<Some(30), None>>,
     <<Some(30), None>>, <<Some(30), None>>, <<None, None>>, <<None, None>>,
     <<None, None>>, <<None, None>>, <<None, None>>, <<None, None>>,
     <<None, None>>, <<None, None>>, <<None, None>>, <<None, None>>,
     <<None, None>>, <<None, None>>, <<None, None>>, <<None, None>>
    >>

\* the multipliers of d, m, m_prime and f and the amplitudes of the
\* longitude and distance terms of the moon
moon_periodic_terms ==
    <<
     <<Some(0), Some(0), Some(1), Some(0), Some(6288774), Some(-20905355)>>,
     <<Some(2), Some(0), Some(-1), Some(0), Some(1274027), Some(-3699111)>>,
     <<Some(2), Some(0), Some(0), Some(0), Some(658314), Some(-2955968)>>,
     <<Some(0), Some(0), Some(2), Some(0), Some(213618), Some(-569925)>>,
     <<Some(0), Some(1), Some(0), Some(0), Some(-185116), Some(48888)>>,
     <<Some(0), Some(0), Some(0), Some(2), Some(-114332), Some(-3149)>>,
     <<Some(2), Some(0), Some(-2), Some(0), Some(58793), Some(246158)>>,
     <<Some(2), Some(-1), Some(-1), Some(0), Some(57066), Some(-152138)>>,
     <<Some(2), Some(0), Some(1), Some(0), Some(53322), Some(-170733)>>,
     <<Some(2), Some(-1), Some(0), Some(0), Some(45758), Some(-204586)>>,
     <<Some(0), Some(1), Some(-1), Some(0), Some(-40923), Some(-129620)>>,
     <<Some(1), Some(0), Some(0), Some(0), Some(-34720), Some(108743)>>,
     <<Some(0), Some(1), Some(1), Some(0), Some(-30383), Some(104755)>>,
     <<Some(2), Some(0), Some(0), Some(-2), Some(15327), Some(10321)>>,
     <<Some(0), Some(0), Some(1), Some(2), Some(-12528), None>>,
     <<Some(0), Some(0), Some(1), Some(-2), Some(10980), Some(79661)>>,
     <<Some(4), Some(0), Some(-1), Some(0), Some(10675), Some(-34782)>>,
     <<Some(0), Some(0), Some(3), Some(0), Some(10034), Some(-23210)>>,
     <<Some(4), Some(0), Some(-2), Some(0), Some(8548), Some(-21636)>>,
     <<Some(2), Some(1), Some(-1), Some(0), Some(-7888), Some(24208)>>,
     <<Some(2), Some(1), Some(0), Some(0), Some(-6766), Some(30824)>>,
     <<Some(1), Some(0), Some(-1), Some(0), Some(-5163), Some(-8379)>>,
     <<Some(1), Some(1), Some(0), Some(0), Some(4987), Some(-16675)>>,
     <<Some(2), Some(-1), Some(1), Some(0), Some(4036), Some(-12831)>>,
     <<Some(2), Some(0), Some(2), Some(0), Some(3994), Some(-10445)>>,
     <<Some(4), Some(0), Some(0), Some(0), Some(3861), Some(-11650)>>,
     <<Some(2), Some(0), Some(-3), Some(0), Some(3665), Some(14403)>>,
     <<Some(0), Some(1), Some(-2), Some(0), Some(-2689), Some(-7003)>>,
     <<Some(2), Some(0), Some(-1), Some(2), Some(-2602), None>>,
     <<Some(2), Some(-1), Some(-2), Some(0), Some(2390), Some(10056)>>,
     <<Some(1), Some(0), Some(1), Some(0), Some(-2348), Some(6322)>>,
     <<Some(2), Some(-2), Some(0), Some(0), Some(2236), Some(-9884)>>,
     <<Some(0), Some(1), Some(2), Some(0), Some(-2120), Some(5751)>>,
     <<Some(0), Some(2), Some(0), Some(0), Some(-2069), None>>,
     <<Some(2), Some(-2), Some(-1), Some(0), Some(2048), Some(-4950)>>,
     <<Some(2), Some(0), Some(1), Some(-2), Some(-1773), Some(4130)>>,
     <<Some(2), Some(0), Some(0), Some(2), Some(-1595), None>>,
     <<Some(4), Some(-1), Some(-1), Some(0), Some(1215), Some(-3958)>>,
     <<Some(0), Some(0), Some(2), Some(2), Some(-1110), None>>,
     <<Some(3), Some(0), Some(-1), Some(0), Some(-892), Some(3258)>>,
     <<Some(2), Some(1), Some(1), Some(0), Some(-810), Some(2616)>>,
     <<Some(4), Some(-1), Some(-2), Some(0), Some(759), Some(-1897)>>,
     <<Some(0), Some(2), Some(-1), Some(0), Some(-713), Some(-2117)>>,
     <<Some(2), Some(2), Some(-1), Some(0), Some(-700), Some(2354)>>,
     <<Some(2), Some(1), Some(-2), Some(0), Some(691), None>>,
     <<Some(2), Some(-1), Some(0), Some(-2), Some(596), None>>,
     <<Some(4), Some(0), Some(1), Some(0), Some(549), Some(-1423)>>,
     <<Some(0), Some(0), Some(4), Some(0), Some(537), Some(-1117)>>,
     <<Some(4), Some(-1), Some(0), Some(0), Some(520), Some(-1571)>>,
     <<Some(1), Some(0), Some(-2), Some(0), Some(-487), Some(-1739)>>,
     <<Some(2), Some(1), Some(0), Some(-2), Some(-399), None>>,
     <<Some(0), Some(0), Some(2), Some(-2), Some(-381), Some(-4421)>>,
     <<Some(1), Some(1), Some(1), Some(0), Some(351), None>>,
     <<Some(3), Some(0), Some(-2), Some(0), Some(-340), None>>,
     <<Some(4), Some(0), Some(-3), Some(0), Some(330), None>>,
     <<Some(2), Some(-1), Some(2), Some(0), Some(327), None>>,
     <<Some(0), Some(2), Some(1), Some(0), Some(-323), Some(1165)>>,
     <<Some(1), Some(1), Some(-1), Some(0), Some(299), None>>,
     <<Some(2), Some(0), Some(3), Some(0), Some(294), None>>,
     <<Some(2), Some(0), Some(-1), Some(-2), None, Some(8752)>>
    >>

\* the multipliers of d, m, m_prime and f and the amplitude of the latitude
\* terms of the moon
periodic_terms_for_moon_latitude ==
    <<
     <<0, 0, 0, 1, 5128122>>, <<0, 0, 1, 1, 280602>>, <<0, 0, 1, -1, 277693>>,
     <<2, 0, 0, -1, 173237>>, <<2, 0, -1, 1, 55413>>, <<2, 0, -1, -1, 46271>>,
     <<2, 0, 0, 1, 32573>>, <<0, 0, 2, 1, 17198>>, <<2, 0, 1, -1, 9266>>,
     <<0, 0, 2, -1, 8822>>, <<2, -1, 0, -1, 8216>>, <<2, 0, -2, -1, 4324>>,
     <<2, 0, 1, 1, 4200>>, <<2, 1, 0, -1, -3359>>, <<2, -1, -1, 1, 2463>>,
     <<2, -1, 0, 1, 2211>>, <<2, -1, -1, -1, 2065>>, <<0, 1, -1, -1, -1870>>,
     <<4, 0, -1, -1, 1828>>, <<0, 1, 0, 1, -1794>>, <<0, 0, 0, 3, -1749>>,
     <<0, 1, -1, 1, -1565>>, <<1, 0, 0, 1, -1491>>, <<0, 1, 1, 1, -1475>>,
     <<0, 1, 1, -1, -1410>>, <<0, 1, 0, -1, -1344>>, <<1, 0, 0, -1, -1335>>,
     <<0, 0, 3, 1, 1107>>, <<4, 0, 0, -1, 1021>>, <<4, 0, -1, 1, 833>>,
     <<0, 0, 1, -3, 777>>, <<4, 0, -2, 1, 671>>, <<2, 0, 0, -3, 607>>,
     <<2, 0, 2, -1, 596>>, <<2, -1, 1, -1, 491>>, <<2, 0, -2, 1, -451>>,
     <<0, 0, 3, -1, 439>>, <<2, 0, 2, 1, 422>>, <<2, 0, -3, -1, 421>>,
     <<2, 1, -1, 1, -366>>, <<2, 1, 0, 1, -351>>, <<4, 0, 0, 1, 331>>,
     <<2, -1, 1, 1, 315>>, <<2, -2, 0, -1, 302>>, <<0, 0, 1, 3, -283>>,
     <<2, 1, 1, -1, -229>>, <<1, 1, 0, -1, 223>>, <<1, 1, 0, 1, 223>>,
     <<0, 1, -2, -1, -220>>, <<2, 1, -1, -1, -220>>, <<1, 0, 1, 1, -185>>,
     <<2, -1, -2, -1, 181>>, <<0, 1, 2, 1, -177>>, <<4, 0, -2, -1, 176>>,
     <<4, -1, -1, -1, 166>>, <<1, 0, 1, -1, -164>>, <<4, 0, 1, -1, 132>>,
     <<1, 0, -1, -1, -119>>, <<4, -1, 0, -1, 115>>, <<2, -2, 0, 1, 107>>
    >>

\* the tables of a site
SinTerms(site) ==
    IF site = "sampa" THEN sampa_coefficients_for_sin_terms
    ELSE coefficients_for_sin_terms(site)

DyTerms(site) ==
    IF site = "sampa" THEN sampa_coefficients_for_dy
    ELSE coefficients_for_dy(site)

DeTerms(site) ==
    IF site = "sampa" THEN sampa_coefficients_for_de
    ELSE coefficients_for_de(site)

\* `jce = (jde - 2451545) / 36525` for jd in hours
JulianCentury(jd) == Div(jd - HoursPerDay * 2451545, HoursPerDay * 36525)

\* an angle in degrees reduced to [0, 360)
Fold(x) == x % Whole(360)

\* `x = [...]`: the five fundamental arguments in degrees, each reduced
NutationArguments(site, jce) ==
    CASE site = "_sideral_time" ->    \* spa.py lines 122-126
        <<Fold(Dec(29785036, 5) + 445267 * jce + Mul(Dec(11148, 5), jce)
                 - Mul(Dec(19142, 7), PowN(jce, 2))
                 + DivWhole(PowN(jce, 3), 189474)),
          Fold(Dec(35752772, 5) + 35999 * jce + Mul(Dec(5034, 5), jce)
                 - Mul(Dec(1603, 7), PowN(jce, 2))
                 - DivWhole(PowN(jce, 3), 300000)),
          Fold(Dec(13496298, 5) + 477198 * jce + Mul(Dec(867398, 6), jce)
                 + Mul(Dec(86972, 7), PowN(jce, 2))
                 + DivWhole(PowN(jce, 3), 56250)),
          Fold(Dec(9327191, 5) + 483202 * jce + Mul(Dec(17538, 6), jce)
                 - Mul(Dec(36825, 7), PowN(jce, 2))
                 + DivWhole(PowN(jce, 3), 327270)),
          Fold(Dec(12504452, 5) - Mul(Dec(1934136261, 6), jce)
                 + Mul(Dec(20708, 7), PowN(jce, 2))
                 + DivWhole(PowN(jce, 3), 450000))>>
      [] site = "_geocentric_ra_and_d" ->    \* spa.py lines 364-368
        <<Fold(Dec(29785036, 5) + 445267 * jce + Mul(Dec(11148, 5), jce)
                 - Mul(Dec(19142, 7), PowN(jce, 2))
                 + DivWhole(PowN(jce, 3), 189474)),
          Fold(Dec(35752772, 5) + 35999 * jce + Mul(Dec(5034, 5), jce)
                 - Mul(Dec(1603, 7), PowN(jce, 2))
                 - DivWhole(PowN(jce, 3), 300000)),
          Fold(Dec(13496298, 5) + 477198 * jce + Mul(Dec(867398, 6), jce)
                 + Mul(Dec(86972, 7), PowN(jce, 2))
                 + DivWhole(PowN(jce, 3), 56250)),
          Fold(Dec(9327191, 5) + 483202 * jce + Mul(Dec(17538, 6), jce)
                 - Mul(Dec(36825, 7), PowN(jce, 2))
                 + DivWhole(PowN(jce, 3), 327270)),
          Fold(Dec(12504452, 5) - Mul(Dec(1934136261, 6), jce)
                 + Mul(Dec(20708, 7), PowN(jce, 2))
                 + DivWhole(PowN(jce, 3), 450000))>>
      [] site = "spa" ->    \* spa.py lines 687-691
        <<Fold(Dec(29785036, 5) + 445267 * jce + Mul(Dec(11148, 5), jce)
                 - Mul(Dec(19142, 7), PowN(jce, 2))
                 + DivWhole(PowN(jce, 3), 189474)),
          Fold(Dec(35752772, 5) + 35999 * jce + Mul(Dec(5034, 5), jce)
                 - Mul(Dec(1603, 7), PowN(jce, 2))
                 - DivWhole(PowN(jce, 3), 300000)),
          Fold(Dec(13496298, 5) + 477198 * jce + Mul(Dec(867398, 6), jce)
                 + Mul(Dec(86972, 7), PowN(jce, 2))
                 + DivWhole(PowN(jce, 3), 56250)),
          Fold(Dec(9327191, 5) + 483202 * jce + Mul(Dec(17538, 6), jce)
                 - Mul(Dec(36825, 7), PowN(jce, 2))
                 + DivWhole(PowN(jce, 3), 327270)),
          Fold(Dec(12504452, 5) - Mul(Dec(1934136261, 6), jce)
                 + Mul(Dec(20708, 7), PowN(jce, 2))
                 + DivWhole(PowN(jce, 3), 450000))>>
      [] site = "sampa" ->    \* sampa.py lines 380-384
        <<Fold(Dec(29785036, 5) + 445267 * jce + Mul(Dec(11148, 5), jce)
                 - Mul(Dec(19142, 7), PowN(jce, 2))
                 + DivWhole(PowN(jce, 3), 189474)),
          Fold(Dec(35752772, 5) + 35999 * jce + Mul(Dec(5034, 5), jce)
                 - Mul(Dec(1603, 7), PowN(jce, 2))
                 - DivWhole(PowN(jce, 3), 300000)),
          Fold(Dec(13496298, 5) + 477198 * jce + Mul(Dec(867398, 6), jce)
                 + Mul(Dec(86972, 7), PowN(jce, 2))
                 + DivWhole(PowN(jce, 3), 56250)),
          Fold(Dec(9327191, 5) + 483202 * jce + Mul(Dec(17538, 6), jce)
                 - Mul(Dec(36825, 7), PowN(jce, 2))
                 + DivWhole(PowN(jce, 3), 327270)),
          Fold(Dec(12504452, 5) - Mul(Dec(1934136261, 6), jce)
                 + Mul(Dec(20708, 7), PowN(jce, 2))
                 + DivWhole(PowN(jce, 3), 450000))>>

\* the mean obliquity in arc seconds, u = jme / 10
SiteMeanObliquity(site, u) ==
    CASE site = "_sideral_time" ->    \* spa.py lines 145-146
        Dec(84381448, 3) - Mul(Dec(468093, 2), u)
          - Mul(Dec(155, 2), PowN(u, 2)) + Mul(Dec(199925, 2), PowN(u, 3))
          - Mul(Dec(5138, 2), PowN(u, 4)) - Mul(Dec(24967, 2), PowN(u, 5))
          - Mul(Dec(3905, 2), PowN(u, 6)) + Mul(Dec(712, 2), PowN(u, 7))
          + Mul(Dec(2787, 2), PowN(u, 8)) + Mul(Dec(579, 2), PowN(u, 9))
          + Mul(Dec(245, 2), PowN(u, 10))
      [] site = "_geocentric_ra_and_d" ->    \* spa.py lines 448-449
        Dec(84381448, 3) - Mul(Dec(468093, 2), u)
          - Mul(Dec(155, 2), PowN(u, 2)) + Mul(Dec(199925, 2), PowN(u, 3))
          - Mul(Dec(5138, 2), PowN(u, 4)) - Mul(Dec(24967, 2), PowN(u, 5))
          - Mul(Dec(3905, 2), PowN(u, 6)) + Mul(Dec(712, 2), PowN(u, 7))
          + Mul(Dec(2787, 2), PowN(u, 8)) + Mul(Dec(579, 2), PowN(u, 9))
          + Mul(Dec(245, 2), PowN(u, 10))
      [] site = "spa" ->    \* spa.py lines 771-772
        Dec(84381448, 3) - Mul(Dec(468093, 2), u)
          - Mul(Dec(155, 2), PowN(u, 2)) + Mul(Dec(199925, 2), PowN(u, 3))
          - Mul(Dec(5138, 2), PowN(u, 4)) - Mul(Dec(24967, 2), PowN(u, 5))
          - Mul(Dec(3905, 2), PowN(u, 6)) + Mul(Dec(712, 2), PowN(u, 7))
          + Mul(Dec(2787, 2), PowN(u, 8)) + Mul(Dec(579, 2), PowN(u, 9))
          + Mul(Dec(245, 2), PowN(u, 10))
      [] site = "sampa" ->    \* sampa.py lines 403-404
        Dec(84381448, 3) - Mul(Dec(468093, 2), u)
          - Mul(Dec(155, 2), PowN(u, 2)) + Mul(Dec(199925, 2), PowN(u, 3))
          - Mul(Dec(5138, 2), PowN(u, 4)) - Mul(Dec(24967, 2), PowN(u, 5))
          - Mul(Dec(3905, 2), PowN(u, 6)) + Mul(Dec(712, 2), PowN(u, 7))
          + Mul(Dec(2787, 2), PowN(u, 8)) + Mul(Dec(579, 2), PowN(u, 9))
          + Mul(Dec(245, 2), PowN(u, 10))

\* the iterations of `for i in range(63):`
NutationRows == 63

\* `sum(x_i)` for the row of multipliers y
RowArgument(x, y) ==
    Fold(x[1] * y[1] + x[2] * y[2] + x[3] * y[3] + x[4] * y[4] + x[5] * y[5])

\* the sum of the first i terms (a + b * jce) * sin(sum(x_i)) of a table cf of
\* amplitudes and rates; with quarter = pi / 2 the sine is the cosine
RECURSIVE NutationSum(_, _, _, _, _, _)
NutationSum(cfst, cf, x, jce, quarter, i) ==
    IF i = 0 THEN 0
    ELSE NutationSum(cfst, cf, x, jce, quarter, i - 1)
           + Mul(cf[i][1] + Mul(cf[i][2], jce),
                 Sin(Radians(RowArgument(x, cfst[i])) + quarter))

\* `sum / 36000000` in degrees, for a sum in tenths
NutationDegrees(sum) == DivWhole(sum, 36000)

\* a is the site and the date and time of its call
NutationDate(a) ==
    [at |-> "run",
     jd |-> JulianDay(ShiftedYear(a.year, a.month), ShiftedMonth(a.month),
                      HoursPerDay * a.day + a.hour,
                      CenturyCorrection(Century(ShiftedYear(a.year, a.month))))]

NutationTables(a, l) ==
    l @@ [jce |-> JulianCentury(l.jd),
          cfst |-> SinTerms(a.site),
          cfdy |-> ReplaceNone(DyTerms(a.site)),
          cfde |-> ReplaceNone(DeTerms(a.site))]

NutationAngles(a, l) == l @@ [x |-> NutationArguments(a.site, l.jce)]

NutationLongitude(a, l) ==
    l @@ [dy_sum |-> NutationSum(l.cfst, l.cfdy, l.x, l.jce, 0, NutationRows)]

NutationObliquity(a, l) ==
    l @@ [de_sum |-> NutationSum(l.cfst, l.cfde, l.x, l.jce, HalfPi, NutationRows)]

NutationMean(a, l) ==
    l @@ [dy |-> NutationDegrees(l.dy_sum),
          de |-> NutationDegrees(l.de_sum),
          e0 |-> SiteMeanObliquity(a.site, Div(Div(l.jce, Whole(10)), Whole(10)))]

NutationTrue(a, l) ==
    [l EXCEPT !.at = "return"] @@ [e |-> Div(l.e0, Whole(3600)) + l.de]

\* the locals of the site when the true obliquity is there
NutationLocals(a) ==
    NutationTrue(a, NutationMean(a, NutationObliquity(a, NutationLongitude(a,
    NutationAngles(a, NutationTables(a, NutationDate(a)))))))

\* what the site goes on with
NutationReturn(l) == [loc |-> l, res |-> [dy |-> l.dy, de |-> l.de, e |-> l.e]]

NutationRun(a) == NutationReturn(NutationLocals(a))

\* `l_prime = ...` and `l_prime = l_prime % 360`: the moon's mean longitude
MoonMeanLongitude(jce) ==
    Fold(Whole(218) + Dec(3164477, 7)
         + 481267 * jce + Mul(Dec(88123421, 8), jce)
         - Mul(Dec(15786, 7), PowN(jce, 2)) + DivWhole(PowN(jce, 3), 538841)
         - DivWhole(PowN(jce, 4), 65194000))

\* `d = ...` and `d = d % 360`: the moon's mean elongation
MoonMeanElongation(jce) ==
    Fold(Whole(297) + Dec(8501921, 7) + 445267 * jce + Mul(Dec(1114034, 7), jce)
         - Mul(Dec(18819, 7), PowN(jce, 2)) + DivWhole(PowN(jce, 3), 545868)
         - DivWhole(PowN(jce, 4), 113065000))

\* `m = ...` and `m = m % 360`: the sun's mean anomaly
SunMeanAnomaly(jce) ==
    Fold(Whole(357) + Dec(5291092, 7) + 35999 * jce + Mul(Dec(502909, 7), jce)
         - Mul(Dec(1536, 7), PowN(jce, 2)) + DivWhole(PowN(jce, 3), 24490000))

\* `m_prime = ...` and `m_prime = m_prime % 360`: the moon's mean anomaly
MoonMeanAnomaly(jce) ==
    Fold(Dec(1349633964, 7) + 477198 * jce + Mul(Dec(8675055, 7), jce)
         + Mul(Dec(87414, 7), PowN(jce, 2)) + DivWhole(PowN(jce, 3), 69699)
         - DivWhole(PowN(jce, 4), 14712000))

\* `f = ...` and `f = f % 360`: the moon's argument of latitude
MoonArgumentOfLatitude(jce) ==
    Fold(Dec(93272095, 6) + 483202 * jce + Mul(Dec(175233, 7), jce)
         - Mul(Dec(36539, 7), PowN(jce, 2)) - DivWhole(PowN(jce, 3), 3526000)
         + DivWhole(PowN(jce, 4), 863310000))

\* `e = 1 - 0.002516 * jce - 0.0000074 * jce ** 2`
Eccentricity(jce) ==
    Whole(1) - Mul(Dec(2516, 6), jce) - Mul(Dec(74, 7), PowN(jce, 2))

\* the columns of a row of the moon's tables: `row[1] * m` and `row[2] *
\* m_prime` in the argument of the term
SunAnomalyMultiplier(row) == row[2]

MoonAnomalyMultiplier(row) == row[3]

\* the factor with the multiplier of m_prime in the place of that of m
MoonEccentricityFactor(row, e) ==
    IF Abs(MoonAnomalyMultiplier(row)) = 1 THEN e
    ELSE IF Abs(MoonAnomalyMultiplier(row)) = 2 THEN PowN(e, 2)
    ELSE S

\* `multiply_l_i`: 1., e `if abs(row[1]) == 1`, e ** 2 `elif abs(row[1]) == 2`
EccentricityFactor(row, e) ==
    IF Abs(SunAnomalyMultiplier(row)) = 1 THEN e
    ELSE IF Abs(SunAnomalyMultiplier(row)) = 2 THEN PowN(e, 2)
    ELSE S

\* `row[0] * d + row[1] * m + row[2] * m_prime + row[3] * f`
MoonArgument(row, l) ==
    Fold(row[1] * l.d + SunAnomalyMultiplier(row) * l.m
           + MoonAnomalyMultiplier(row) * l.m_prime + row[4] * l.f)

\* the terms `row[column] * multiply_l_i * math.sin(...)` of a table, a row a
\* term; with quarter = pi / 2 the sine is the cosine
MoonTerms(table, column, quarter, l) ==
    [i \in 1..Len(table) |->
        Mul(Mul(table[i][column], EccentricityFactor(table[i], l.e)),
            Sin(Radians(MoonArgument(table[i], l)) + quarter))]

\* the sum of the first i of the terms
RECURSIVE SumOf(_, _)
SumOf(terms, i) == IF i = 0 THEN 0 ELSE SumOf(terms, i - 1) + terms[i]

\* a is the date and time of a call of sampa
MoonDate(a) ==
    [at |-> "run",
     mpt |-> ReplaceNone(moon_periodic_terms),
     ptml |-> periodic_terms_for_moon_latitude,
     jd |-> JulianDay(ShiftedYear(a.year, a.month), ShiftedMonth(a.month),
                      HoursPerDay * a.day + a.hour,
                      CenturyCorrection(Century(ShiftedYear(a.year, a.month))))]

MoonCentury(a, l) == l @@ [jce |-> JulianCentury(l.jd)]

MoonMeans(a, l) ==
    l @@ [l_prime |-> MoonMeanLongitude(l.jce),
          d |-> MoonMeanElongation(l.jce),
          m |-> SunMeanAnomaly(l.jce),
          m_prime |-> MoonMeanAnomaly(l.jce),
          f |-> MoonArgumentOfLatitude(l.jce),
          e |-> Eccentricity(l.jce)]

MoonLongitudeTerms(a, l) == l @@ [l_terms |-> MoonTerms(l.mpt, 5, 0, l)]

MoonDistanceTerms(a, l) == l @@ [r_terms |-> MoonTerms(l.mpt, 6, HalfPi, l)]

MoonLatitudeTerms(a, l) == l @@ [b_terms |-> MoonTerms(l.ptml, 5, 0, l)]

MoonSums(a, l) ==
    [l EXCEPT !.at = "return"]
      @@ [l |-> SumOf(l.l_terms, Len(l.l_terms)),
          r |-> SumOf(l.r_terms, Len(l.r_terms)),
          b |-> SumOf(l.b_terms, Len(l.b_terms))]

\* the locals of sampa when the three sums are there
MoonLocals(a) ==
    MoonSums(a, MoonLatitudeTerms(a, MoonDistanceTerms(a,
    MoonLongitudeTerms(a, MoonMeans(a, MoonCentury(a, MoonDate(a)))))))

\* what sampa goes on with
MoonReturn(l) == [loc |-> l, res |-> [l |-> l.l, r |-> l.r, b |-> l.b]]

MoonRun(a) == MoonReturn(MoonLocals(a))

\* the dates and times the series are summed for: within forty years of the
\* year 2000, where jce times the rates of the arguments stays small, each a
\* whole number of half years of 182.625 days from the epoch, where jce is a
\* multiple of 0.005; among them the epoch itself, where e is 1
SeriesInstants ==
    {[year |-> 1987, month |-> 1, day |-> 1, hour |-> 6],
     [year |-> 2000, month |-> 1, day |-> 1, hour |-> 12],
     [year |-> 2003, month |-> 7, day |-> 2, hour |-> 21],
     [year |-> 2009, month |-> 7, day |-> 2, hour |-> 9],
     [year |-> 2020, month |-> 12, day |-> 31, hour |-> 18],
     [year |-> 2031, month |-> 1, day |-> 1, hour |-> 6]}

NutationInputs ==
    {[site |-> site, year |-> t.year, month |-> t.month, day |-> t.day,
      hour |-> t.hour] : site \in Sites, t \in SeriesInstants}

(***************************************************************************)
(* The calls.  A caller is idle (fn = "none"), has entered an entry point  *)
(* fn with args (loc.at = "call"), or holds the outcome of that call: the  *)
(* locals of the call when it ended (loc.at tells where: "return", or the  *)
(* statement that raised) and the result.                                  *)
(***************************************************************************)
\* zenith runs over the multiples of 30 degrees from -30 to 30 * ZenithSteps
ZenithSteps == 4

\* dni_mod runs over the multiples of 1 / DniSteps from -1 to 1
DniSteps == 2

\* ems runs over the contact separations and up to EmsSteps units around them
EmsSteps == 2

BirdInputs ==
    [r : {0, Dec(9833, 4), S, Dec(10167, 4)},
     zenith : {Whole(30) * k : k \in -1..ZenithSteps},
     pressure : {Whole(800), Whole(1013)},
     ozone : {Dec(3, 1), Whole(150)},
     water : {Dec(15, 1)},
     aerosol : {Dec(4, 2), Dec(5, 1)},
     albedo : {Dec(2, 1)},
     dni_mod : {Div(Whole(k), Whole(DniSteps)) : k \in -DniSteps..DniSteps},
     ba : {Dec(85, 2)},
     k1 : {Dec(1, 1)}]

\* the sun at the June solstice, just after the March equinox and at the
\* December solstice: geocentric declination and right ascension, the
\* geocentric declination at 0 UT, the distance in AU, and the mean
\* longitude, which is then 0.45 and 1.9 degrees behind the right ascension
\* and 0.5 degrees ahead of it
SunPositions ==
    {[d |-> Dec(2344, 2), a2 |-> Dec(901, 1), d_0 |-> Dec(2344, 2),
      r |-> Dec(10163, 4), m |-> Dec(8965, 2)],
     [d |-> Dec(2, 1), a2 |-> Dec(5, 1), d_0 |-> 0,
      r |-> Dec(9961, 4), m |-> Dec(3586, 1)],
     [d |-> -Dec(2344, 2), a2 |-> Whole(270), d_0 |-> -Dec(2343, 2),
      r |-> Dec(9837, 4), m |-> Dec(2705, 1)]}

HourAngles == {0, Whole(60), Whole(120), Whole(180)}

\* what the series deliver to spa
SunSkies ==
    {[d |-> q.d, h |-> h, a2 |-> q.a2, d_0 |-> q.d_0, r |-> q.r, m |-> q.m,
      dy |-> -Dec(4, 3), e_2 |-> Dec(2344, 2)] :
       q \in SunPositions, h \in HourAngles}

Latitudes == {0, Whole(40), Whole(80)}

\* the dates spa is called on, from below the year 1 to the year 6000, among
\* them the test's in the year 100, the first day of the year 1 and the
\* first that datetime holds the day before of, and the days around the
\* start of the Gregorian calendar, and a first of a month before it
Dates ==
    {[year |-> -100, month |-> 3, day |-> 1, hour |-> 0],
     [year |-> 0, month |-> 12, day |-> 31, hour |-> 12],
     [year |-> 1, month |-> 1, day |-> 1, hour |-> 0],
     [year |-> 1, month |-> 1, day |-> 3, hour |-> 0],
     [year |-> 100, month |-> 1, day |-> 5, hour |-> 7],
     [year |-> 1500, month |-> 6, day |-> 1, hour |-> 12],
     [year |-> 1582, month |-> 10, day |-> 14, hour |-> 0],
     [year |-> 1582, month |-> 10, day |-> 15, hour |-> 0],
     [year |-> 2020, month |-> 6, day |-> 21, hour |-> 18],
     [year |-> 6000, month |-> 12, day |-> 31, hour |-> 12]}

Surfaces ==
    [latitude : Latitudes,
     elevation : {0},
     pressure : {Whole(800), Whole(1013)},
     temperature : {Whole(10)},
     omega : {0, Whole(30)},
     gamma : {0}]

\* the arguments of spa: a surface on a date
SpaInputs ==
    {[year |-> t.year, month |-> t.month, day |-> t.day, hour |-> t.hour,
      latitude |-> q.latitude, elevation |-> q.elevation,
      pressure |-> q.pressure, temperature |-> q.temperature,
      omega |-> q.omega, gamma |-> q.gamma] : t \in Dates, q \in Surfaces}

SampaInputs ==
    [year : {2020},
     month : {12},
     day : {14},
     hour : {16},
     latitude : {Whole(40), Whole(80)},
     elevation : {0},
     pressure : {Whole(1013)},
     temperature : {Whole(10)},
     ozone : {Dec(3, 1), Whole(30)},
     water : {Dec(15, 1)},
     aerosol : {Dec(4, 2)},
     albedo : {Dec(2, 1)},
     ba : {Dec(85, 2)},
     k1 : {Dec(1, 1)}]

\* the sun of the skies sampa is called under: at the meridian and four hours
\* past it
SampaSuns == {sun \in SunSkies : sun.h \in {0, Whole(60)}}

\* the moon's distance in km: near perigee and near apogee
MoonDistances == {357000, 406000}

\* what the series deliver to sampa with the moon in front of the sun
\* (sep is then ems) or a quarter turn west of it (sep = Far)
MoonSky(sun, delta, sep) ==
    [jme |-> Dec(205, 4), de |-> -Dec(3, 4), sun |-> sun, delta |-> delta,
     sep |-> sep, d |-> sun.d,
     h |-> IF sep = Far THEN (sun.h + Whole(90)) % Whole(360) ELSE sun.h,
     a2 |-> IF sep = Far THEN (sun.a2 - Whole(90)) % Whole(360) ELSE sun.a2]

\* the separations tried for discs of radii r_s and r_m: concentric, at and
\* just outside second contact, half way, and around first contact
Separations(r_s, r_m) ==
    {0, (Abs(r_m - r_s) + r_m + r_s) \div 2}
      \cup {Abs(r_m - r_s) + k : k \in 0..EmsSteps}
      \cup {r_m + r_s + k : k \in -EmsSteps..EmsSteps}

\* what the almanac algorithm delivers to solpos: the declination at the
\* solstices and just after the March equinox, and hour angles from before
\* dawn to midnight, among them one just past sunset at low latitudes
SolposSkies ==
    [declin : {Dec(2344, 2), Dec(2, 1), -Dec(2344, 2)},
     hrang : {-Whole(120), -Whole(60), 0, Whole(60), Whole(92), Whole(180)}]

\* the instants solpos is called at: a leap day and the day after one, the
\* last days of a leap year, of the leap year before 1949 and of the common
\* year 2100, and a day of the leap year 2000
SolposInstants ==
    {[year |-> 2020, month |-> 2, day |-> 29, hour |-> 0],
     [year |-> 2021, month |-> 3, day |-> 1, hour |-> Whole(12)],
     [year |-> 2020, month |-> 12, day |-> 31, hour |-> Whole(23)],
     [year |-> 1948, month |-> 12, day |-> 31, hour |-> Whole(15)],
     [year |-> 2100, month |-> 12, day |-> 31, hour |-> Whole(12)],
     [year |-> 2000, month |-> 2, day |-> 28, hour |-> Whole(15)]}

SolposInputs ==
    {[year |-> t.year, month |-> t.month, day |-> t.day, hour |-> t.hour,
      minute |-> Whole(3), second |-> Whole(4), timezone |-> 0,
      latitude |-> latitude, longitude |-> Whole(3), pressure |-> pressure,
      temperature |-> Whole(15), interval |-> 0] :
        t \in SolposInstants,
        latitude \in {-Whole(70), 0, Whole(40), Whole(80), Whole(90)},
        pressure \in {Whole(780), Whole(1013)}}

\* the moon's radius in a sky where it is in front of the sun
NearMoonRadius(a, sun, delta) ==
    MoonRadius(SampaMoonLocals(a, MoonSky(sun, delta, 0)).e,
               MoonParallax(delta), delta)

Init ==
    /\ fn = "none"
    /\ args = <<>>
    /\ loc = [at |-> "none"]
    /\ res = <<>>

\* a call ends: the caller holds its locals and its result
Ends(run) ==
    /\ loc' = run.loc
    /\ res' = run.res

\* the caller enters bird with arguments a
BirdCall ==
    /\ fn = "none"
    /\ \E a \in BirdInputs :
         /\ fn' = "bird"
         /\ args' = a
         /\ loc' = [at |-> "call"]
         /\ res' = <<>>

\* bird runs to its end
Bird ==
    /\ fn = "bird"
    /\ loc.at = "call"
    /\ Ends(BirdRun(args))
    /\ UNCHANGED <<fn, args>>

\* the caller enters spa with arguments a, on a date, at a time and a
\* longitude for which the series deliver s
SpaCall ==
    /\ fn = "none"
    /\ \E a \in SpaInputs, s \in SunSkies :
         /\ fn' = "spa"
         /\ args' = [a |-> a, s |-> s]
         /\ loc' = [at |-> "call"]
         /\ res' = <<>>

\* the caller turns the surface to where spa has just put the sun (the
\* slope omega to the zenith angle, the azimuth rotation gamma to the
\* astronomers azimuth, that is the returned azimuth less 180 degrees) and
\* enters spa again on the same date and at the same place
SpaCallFacingSun ==
    /\ fn = "spa"
    /\ loc.at = "return"
    /\ fn' = "spa"
    /\ args' = [args EXCEPT !.a.omega = res.angles[2],
                            !.a.gamma = (res.angles[3] - Whole(180)) % Whole(360)]
    /\ loc' = [at |-> "call"]
    /\ res' = <<>>

\* spa runs to its end
Spa ==
    /\ fn = "spa"
    /\ loc.at = "call"
    /\ Ends(SpaRun(args.a, args.s))
    /\ UNCHANGED <<fn, args>>

\* the caller enters sampa with arguments a, on a date, at a time and a
\* longitude for which the series deliver the sky s
SampaCall ==
    /\ fn = "none"
    /\ \E a \in SampaInputs, sun \in SampaSuns, delta \in MoonDistances :
         \E sep \in Separations(SunRadius(sun.r), NearMoonRadius(a, sun, delta))
                      \cup {Far} :
           /\ fn' = "sampa"
           /\ args' = [a |-> a, s |-> MoonSky(sun, delta, sep)]
           /\ loc' = [at |-> "call"]
           /\ res' = <<>>

\* sampa runs to its end, its calls of spa and bird included
Sampa ==
    /\ fn = "sampa"
    /\ loc.at = "call"
    /\ Ends(SampaRun(args.a, args.s))
    /\ UNCHANGED <<fn, args>>

\* the caller enters solpos with arguments a, on a date, at a time and a
\* longitude for which the almanac algorithm delivers s
SolposCall ==
    /\ fn = "none"
    /\ \E a \in SolposInputs, s \in SolposSkies :
         /\ fn' = "solpos"
         /\ args' = [a |-> a, s |-> s]
         /\ loc' = [at |-> "call"]
         /\ res' = <<>>

\* solpos runs to its end
Solpos ==
    /\ fn = "solpos"
    /\ loc.at = "call"
    /\ Ends(SolposRun(args.a, args.s))
    /\ UNCHANGED <<fn, args>>

\* a site has the date and time of its call and comes to the nutation
NutationCall ==
    /\ fn = "none"
    /\ \E a \in NutationInputs :
         /\ fn' = "nutation"
         /\ args' = a
         /\ loc' = [at |-> "call"]
         /\ res' = <<>>

\* the site computes dy, de and the true obliquity
Nutation ==
    /\ fn = "nutation"
    /\ loc.at = "call"
    /\ Ends(NutationRun(args))
    /\ UNCHANGED <<fn, args>>

\* sampa has the date and time of its call and comes to the moon's series
MoonSeriesCall ==
    /\ fn = "none"
    /\ \E a \in SeriesInstants :
         /\ fn' = "moon_series"
         /\ args' = a
         /\ loc' = [at |-> "call"]
         /\ res' = <<>>

\* sampa sums the three series
MoonSeries ==
    /\ fn = "moon_series"
    /\ loc.at = "call"
    /\ Ends(MoonRun(args))
    /\ UNCHANGED <<fn, args>>

\* the caller lets go of the outcome and is ready for the next call
Discard ==
    /\ fn # "none"
    /\ loc.at # "call"
    /\ fn' = "none"
    /\ args' = <<>>
    /\ loc' = [at |-> "none"]
    /\ res' = <<>>

Next ==
    \/ BirdCall \/ Bird
    \/ SpaCall \/ SpaCallFacingSun \/ Spa
    \/ SampaCall \/ Sampa
    \/ SolposCall \/ Solpos
    \/ NutationCall \/ Nutation
    \/ MoonSeriesCall \/ MoonSeries
    \/ Discard

Spec == Init /\ [][Next]_vars

(***************************************************************************)
(* Calls from several threads.  In the specification Concurrent each of    *)
(* the four variables holds one value a thread: fn[t] is the entry point   *)
(* thread t is in (name), the number of the calls it has made (calls) and  *)
(* where it is in the call (pc: 0 outside a call, k when the k-th group of *)
(* statements of the function is the next to run, one past the last when   *)
(* the return is); args[t] is what it called the entry point with, loc[t]  *)
(* the locals of its call, which is all a statement of these functions     *)
(* reads and writes besides the arguments, and res[t] what the call        *)
(* returned or raised.  sampa's calls of spa and bird are statements of    *)
(* sampa: they run on sampa's thread, with locals of their own.            *)
(***************************************************************************)
Threads == {1, 2}

\* the threads make up to MaxCalls calls between them
MaxCalls == 2

\* run one after the other, the threads make up to MaxSerialCalls calls
\* between them
MaxSerialCalls == 3

RECURSIVE CallsMade(_, _)
\* the calls the threads 1..t have entered
CallsMade(f, t) == IF t = 0 THEN 0 ELSE f[t].calls + CallsMade(f, t - 1)

\* the locals of the call before found again
OldFrame(left) == [left EXCEPT !.at = "call"]

\* the locals of a call that has just been entered, whatever the locals
\* left of the thread's call before it: none
NewFrame(left) == [at |-> "call"]

\* the locals of the first thread, for every thread that finds its own
\* among them
SharedFrame(frames, t) ==
    IF DOMAIN frames[t] \subseteq DOMAIN frames[1] THEN frames[1] ELSE frames[t]

\* the locals the statements of thread t work on: those of its own call
OwnFrame(frames, t) == frames[t]

\* the statements of bird in their order, in groups: group k works on the
\* locals l the groups before it leave
BirdStage(k, a, s, l) ==
    CASE k = 1 -> (BirdAirMass(a) @@ [at |-> "return"]) @@ l
      [] k = 2 -> BirdPaths(a, l)
      [] k = 3 -> BirdTransmittances(a, l)
      [] k = 4 -> BirdAbsorptance(a, l)
      [] k = 5 -> BirdScattering(a, l)
      [] k = 6 -> BirdSky(a, l)
      [] k = 7 -> BirdGlobal(a, l)
      [] k = 8 -> BirdDirectNormal(a, l)
      [] k = 9 -> BirdDirectHorizontal(a, l)
      [] k = 10 -> BirdDiffuse(a, l)
      [] k = 11 -> BirdModDirect(a, l)
      [] k = 12 -> BirdModHorizontal(a, l)
      [] k = 13 -> BirdModGlobal(a, l)
      [] k = 14 -> BirdModDiffuse(a, l)

\* the statements of spa
SpaStage(k, a, s, l) ==
    CASE k = 1 -> SpaShift(a, s) @@ l
      [] k = 2 -> SpaCentury(a, s, l)
      [] k = 3 -> SpaCenturyCorrection(a, s, l)
      [] k = 4 -> SpaJulianDay(a, s, l)
      [] k = 5 -> SpaObserver(a, s, l)
      [] k = 6 -> SpaObserverPosition(a, s, l)
      [] k = 7 -> SpaParallax(a, s, l)
      [] k = 8 -> SpaTopocentric(a, s, l)
      [] k = 9 -> SpaElevationOperand(a, s, l)
      [] k = 10 -> SpaElevation(a, s, l)
      [] k = 11 -> SpaRefraction(a, s, l)
      [] k = 12 -> SpaApparent(a, s, l)
      [] k = 13 -> SpaZenith(a, s, l)
      [] k = 14 -> SpaIncidenceOperand(a, s, l)
      [] k = 15 -> SpaIncidence(a, s, l)
      [] k = 16 -> SpaEquationOfTime(a, s, l)
      [] k = 17 -> SpaDays(a, s, l)
      [] k = 18 -> SpaHalfRange(a, s, l)
      [] k = 19 -> SpaDayNumber(a, s, l)
      [] k = 20 -> SpaCalendarC(a, s, l)
      [] k = 21 -> SpaCalendarD(a, s, l)
      [] k = 22 -> SpaCalendarG(a, s, l)
      [] k = 23 -> SpaCalendarI(a, s, l)
      [] k = 24 -> SpaCalendarDate(a, s, l)

\* the statements of sampa
SampaStage(k, a, s, l) ==
    CASE k = 1 -> SampaShift(a, s) @@ l
      [] k = 2 -> SampaJulianDay(a, s, l)
      [] k = 3 -> SampaObliquity(a, s, l)
      [] k = 4 -> SampaObserverPosition(a, s, l)
      [] k = 5 -> SampaParallax(a, s, l)
      [] k = 6 -> SampaTopocentric(a, s, l)
      [] k = 7 -> SampaElevationOperand(a, s, l)
      [] k = 8 -> SampaElevation(a, s, l)
      [] k = 9 -> SampaRefraction(a, s, l)
      [] k = 10 -> SampaApparent(a, s, l)
      [] k = 11 -> SampaZenith(a, s, l)
      [] k = 12 -> SampaSun(a, s, l)
      [] k = 13 -> SampaSeparationOperand(a, s, l)
      [] k = 14 -> SampaSeparation(a, s, l)
      [] k = 15 -> SampaRadii(a, s, l)
      [] k = 16 -> SampaNote(a, s, l)
      [] k = 17 -> SampaChord(a, s, l)
      [] k = 18 -> SampaHeight(a, s, l)
      [] k = 19 -> SampaTriangles(a, s, l)
      [] k = 20 -> SampaSectorS(a, s, l)
      [] k = 21 -> SampaSectorM(a, s, l)
      [] k = 22 -> SampaSegmentM(a, s, l)
      [] k = 23 -> SampaOverlap(a, s, l)
      [] k = 24 -> SampaUnshaded(a, s, l)
      [] k = 25 -> SampaPercent(a, s, l)
      [] k = 26 -> SampaIrradiance(a, s, l)
      [] k = 27 -> SampaIe(a, s, l)

\* the statements of solpos
SolposStage(k, a, s, l) ==
    CASE k = 1 -> SolposDayNum(a, s) @@ l
      [] k = 2 -> SolposMonth(a, s, l)
      [] k = 3 -> SolposJulday(a, s, l)
      [] k = 4 -> SolposTrig(a, s, l)
      [] k = 5 -> SolposZenithOperand(a, s, l)
      [] k = 6 -> SolposZenithClamp(a, s, l)
      [] k = 7 -> SolposZenith(a, s, l)
      [] k = 8 -> SolposElevation(a, s, l)
      [] k = 9 -> SolposHalfDayOperand(a, s, l)
      [] k = 10 -> SolposHalfDay(a, s, l)
      [] k = 11 -> SolposTime(a, s, l)
      [] k = 12 -> SolposSunTimes(a, s, l)
      [] k = 13 -> SolposAzimuthDivisor(a, s, l)
      [] k = 14 -> SolposAzimuthOperand(a, s, l)
      [] k = 15 -> SolposAzimuthClamp(a, s, l)
      [] k = 16 -> SolposAzimuth(a, s, l)
      [] k = 17 -> SolposRefcor(a, s, l)
      [] k = 18 -> SolposRefracted(a, s, l)
      [] k = 19 -> SolposAirMass(a, s, l)
      [] k = 20 -> SolposPressureAirMass(a, s, l)

\* the groups of statements a call of the entry point runs through: none
\* of bird's outside the valid domain
StageCount(name, a) ==
    CASE name = "bird" -> IF InDomain(a.zenith, a.r) THEN 14 ELSE 0
      [] name = "spa" -> 24
      [] name = "sampa" -> 27
      [] name = "solpos" -> 20

Stage(name, k, a, s, l) ==
    CASE name = "bird" -> BirdStage(k, a, s, l)
      [] name = "spa" -> SpaStage(k, a, s, l)
      [] name = "sampa" -> SampaStage(k, a, s, l)
      [] name = "solpos" -> SolposStage(k, a, s, l)

\* the return of a call with the locals l
Outcome(name, a, s, l) ==
    CASE name = "bird" ->
           IF InDomain(a.zenith, a.r) THEN BirdReturn(l)
           ELSE [loc |-> NoLocals, res |-> <<0, 0, 0, 0, 0, 0, 0>>]
      [] name = "spa" -> SpaReturn(s, l)
      [] name = "sampa" -> SampaReturn(s, l)
      [] name = "solpos" -> SolposReturn(s, l)

\* the call run alone, from its entry to its end
Alone(name, a, s) ==
    CASE name = "bird" -> BirdRun(a)
      [] name = "spa" -> SpaRun(a, s)
      [] name = "sampa" -> SampaRun(a, s)
      [] name = "solpos" -> SolposRun(a, s)

\* the calls of bird at the zenith angles given
BirdCalls(zeniths) ==
    {[name |-> "bird", a |-> a, s |-> <<>>] :
        a \in {b \in BirdInputs :
                 /\ b.r = S
                 /\ b.zenith \in zeniths
                 /\ b.pressure = Whole(1013)
                 /\ b.ozone = Dec(3, 1)
                 /\ b.aerosol = Dec(4, 2)
                 /\ b.dni_mod = S}}

\* the calls the threads make: bird in and outside its domain, spa on the
\* afternoon of a June solstice, sampa with the moon away from the sun, and
\* solpos on a leap day
ThreadCalls ==
    BirdCalls({Whole(30), Whole(120)})
      \cup
    {[name |-> "spa", a |-> a, s |-> s] :
        a \in {b \in SpaInputs :
                 /\ b.year = 2020
                 /\ b.latitude = Whole(40)
                 /\ b.pressure = Whole(1013)
                 /\ b.omega = 0},
        s \in {q \in SunSkies : q.d = Dec(2344, 2) /\ q.h = Whole(60)}}
      \cup
    {[name |-> "sampa", a |-> a, s |-> MoonSky(sun, 357000, Far)] :
        a \in {b \in SampaInputs :
                 b.latitude = Whole(40) /\ b.ozone = Dec(3, 1)},
        sun \in {q \in SampaSuns : q.d = -Dec(2344, 2) /\ q.h = 0}}
      \cup
    {[name |-> "solpos", a |-> a, s |-> s] :
        a \in {b \in SolposInputs :
                 /\ b.month = 2
                 /\ b.day = 29
                 /\ b.latitude = Whole(40)
                 /\ b.pressure = Whole(1013)},
        s \in {q \in SolposSkies : q.declin = Dec(2, 1) /\ q.hrang = Whole(60)}}

ThreadsInit ==
    /\ fn = [t \in Threads |-> [name |-> "none", calls |-> 0, pc |-> 0]]
    /\ args = [t \in Threads |-> <<>>]
    /\ loc = [t \in Threads |-> [at |-> "none"]]
    /\ res = [t \in Threads |-> << >>]

\* thread t, outside a call, enters the entry point of the call c
ThreadEnter(t, c) ==
    /\ fn[t].pc = 0
    /\ fn' = [fn EXCEPT ![t] = [name |-> c.name, calls |-> fn[t].calls + 1,
                                pc |-> 1]]
    /\ args' = [args EXCEPT ![t] = [a |-> c.a, s |-> c.s]]
    /\ loc' = [loc EXCEPT ![t] = NewFrame(loc[t])]
    /\ UNCHANGED res

\* thread t runs the next statements of its call
ThreadStep(t) ==
    /\ fn[t].pc # 0
    /\ fn[t].pc \in 1..StageCount(fn[t].name, args[t].a)
    /\ loc' = [loc EXCEPT ![t] = Stage(fn[t].name, fn[t].pc, args[t].a,
                                       args[t].s, OwnFrame(loc, t))]
    /\ fn' = [fn EXCEPT ![t].pc = fn[t].pc + 1]
    /\ UNCHANGED <<args, res>>

\* the call of thread t returns or raises, and the caller keeps the outcome
\* beside the outcomes of its earlier calls
ThreadReturn(t) ==
    /\ fn[t].pc # 0
    /\ fn[t].pc = StageCount(fn[t].name, args[t].a) + 1
    /\ loc' = [loc EXCEPT ![t] = Outcome(fn[t].name, args[t].a, args[t].s,
                                         OwnFrame(loc, t)).loc]
    /\ res' = [res EXCEPT ![t] =
                  Append(res[t], [name |-> fn[t].name, a |-> args[t].a,
                                  s |-> args[t].s,
                                  res |-> Outcome(fn[t].name, args[t].a,
                                                  args[t].s,
                                                  OwnFrame(loc, t)).res])]
    /\ fn' = [fn EXCEPT ![t].pc = 0]
    /\ UNCHANGED args

Enter ==
    /\ CallsMade(fn, Cardinality(Threads)) < MaxCalls
    /\ \E t \in Threads, c \in ThreadCalls : ThreadEnter(t, c)

Step == \E t \in Threads : ThreadStep(t)

Return == \E t \in Threads : ThreadReturn(t)

ThreadsNext == Enter \/ Step \/ Return

Concurrent == ThreadsInit /\ [][ThreadsNext]_vars

(***************************************************************************)
(* Calls one after the other: a call runs from its entry to its return    *)
(* with no statement of another call between, on the thread of its caller *)
(* and from the locals NewFrame gives it.                                  *)
(***************************************************************************)
\* the calls made one after the other: those of the threads, and bird in its
\* domain at a second zenith angle
SerialCalls == ThreadCalls \cup BirdCalls({Whole(60)})

RECURSIVE Staged(_, _, _, _, _)
\* the locals after the stages k.. of a call, run without a break; outside
\* a call no stage runs
Staged(name, k, a, s, l) ==
    IF l.at = "none" \/ k > StageCount(name, a) THEN l
    ELSE Staged(name, k + 1, a, s, Stage(name, k, a, s, l))

\* thread t is left with the outcome out of its call c
SerialKeeps(t, c, out) ==
    /\ fn' = [fn EXCEPT ![t] = [name |-> c.name, calls |-> fn[t].calls + 1,
                                pc |-> 0]]
    /\ args' = [args EXCEPT ![t] = [a |-> c.a, s |-> c.s]]
    /\ loc' = [loc EXCEPT ![t] = out.loc]
    /\ res' = [res EXCEPT ![t] =
                  Append(res[t], [name |-> c.name, a |-> c.a, s |-> c.s,
                                  res |-> out.res])]

\* thread t makes the call c, from entry to return
SerialCall(t, c) ==
    SerialKeeps(t, c, Outcome(c.name, c.a, c.s,
                              Staged(c.name, 1, c.a, c.s, NewFrame(loc[t]))))

SerialNext ==
    /\ CallsMade(fn, Cardinality(Threads)) < MaxSerialCalls
    /\ \E t \in Threads, c \in SerialCalls : SerialCall(t, c)

Serial == ThreadsInit /\ [][SerialNext]_vars

(***************************************************************************)
(* The properties.  A call has ended when the caller holds its outcome.    *)
(***************************************************************************)
BirdEnded == fn = "bird" /\ loc.at # "call"

SpaEnded == fn = "spa" /\ loc.at # "call"

SampaEnded == fn = "sampa" /\ loc.at # "call"

SolposEnded == fn = "solpos" /\ loc.at # "call"

SolposReturned == fn = "solpos" /\ loc.at = "return"

SampaReturned == fn = "sampa" /\ loc.at = "return"

\* the sun's zenith angle returned by sampa puts it above the horizon
SunUp == 0 <= res.first[1] /\ res.first[1] < Whole(90)

\* C1: a spa call whose half-range operand acos_arguement has magnitude
\* above 1 does not raise: it returns, with the note 'Sun is always above or
\* below the horizon for that day'; with a magnitude of at most 1 the note
\* is the empty string.
C1_CircumpolarNote ==
    (SpaEnded /\ loc.at \in {"H_0", "return"}) =>
        /\ loc.at = "return"
        /\ res.sun_time_notes =
             IF Abs(loc.acos_arguement) > S
             THEN "Sun is always above or below the horizon for that day"
             ELSE ""

\* C2: the eighth element of the first tuple sampa returns is the true
\* obliquity of the ecliptic, e0 / 3600 + de.
C2_EighthIsTrueObliquity ==
    SampaReturned => res.first[8] = TrueObliquity(args.s.jme, args.s.de)

\* C3: every sampa call ends with a note that the geometry determines, one
\* of four strings: 'No Eclipse' when ems > r_m + r_s, 'Start or End of
\* Eclipse' when ems = r_m + r_s, 'Total Solar Eclipse' when
\* ems < r_m + r_s and ems <= |r_m - r_s|, 'Partial Solar Eclipse'
\* otherwise; never 'Solar Eclipse'.
C3_NoteByGeometry ==
    SampaEnded =>
        /\ loc.at = "return"
        /\ res.second[6] =
             IF loc.ems > res.second[2] + res.second[1] THEN "No Eclipse"
             ELSE IF loc.ems = res.second[2] + res.second[1]
                  THEN "Start or End of Eclipse"
             ELSE IF loc.ems <= Abs(res.second[2] - res.second[1])
                  THEN "Total Solar Eclipse"
             ELSE "Partial Solar Eclipse"

\* C4: every sampa call that returns gives a SUL area >= 0 and a SUL
\* percentage in [0, 100], whatever the note.
C4_UnshadedInRange ==
    SampaReturned =>
        /\ res.second[3] >= 0
        /\ 0 <= res.second[4]
        /\ res.second[4] <= Whole(100)

C6_ZerosOutsideDomain ==
    BirdEnded =>
        /\ loc.at = "return"
        /\ res = <<0, 0, 0, 0, 0, 0, 0>>
             <=> ~(0 <= args.zenith /\ args.zenith < Whole(90) /\ args.r > 0)

\* bird has returned the zeros for zenith = 90 and a valid r
C6_AtHorizon ==
    /\ BirdEnded
    /\ args.zenith = Whole(90)
    /\ args.r > 0
    /\ res = <<0, 0, 0, 0, 0, 0, 0>>

\* C7: with 0 <= zenith < 90 and r > 0 the direct-normal irradiance bird
\* returns (element 1) is non-negative: a negative formula value is
\* replaced by 0.
C7_DirectNormalNonNegative ==
    (BirdEnded /\ 0 <= args.zenith /\ args.zenith < Whole(90) /\ args.r > 0) =>
        /\ res[2] >= 0
        /\ loc.formula < 0 => res[2] = 0

\* bird has returned in its domain from a negative formula value
C7_NegativeFormula ==
    /\ BirdEnded
    /\ 0 <= args.zenith /\ args.zenith < Whole(90) /\ args.r > 0
    /\ loc.formula < 0
    /\ res[2] = 0

\* C8: in bird's domain, with dni_mod >= 0 the attenuated direct-normal is
\* direct_normal * dni_mod and the attenuated global is made of that
\* attenuated direct term and the diffuse-sky term ias of the unattenuated
\* global; with dni_mod < 0 the three attenuated outputs are 0 and the
\* unattenuated ones are what they are for a dni_mod >= 0.
C8_Attenuation ==
    (BirdEnded /\ 0 <= args.zenith /\ args.zenith < Whole(90) /\ args.r > 0) =>
        /\ res[3] = Div(loc.id2 + loc.ias, S - Mul(args.albedo, loc.rs))
        /\ args.dni_mod >= 0 =>
             /\ res[5] = Mul(res[2], args.dni_mod)
             /\ res[6] = Div(Mul(res[5], Cos(Radians(args.zenith))) + loc.ias,
                             S - Mul(args.albedo, loc.rs))
        /\ args.dni_mod < 0 =>
             /\ res[5] = 0 /\ res[6] = 0 /\ res[7] = 0
             /\ <<res[1], res[2], res[3], res[4]>> =
                  SubSeq(BirdRun([args EXCEPT !.dni_mod = 0]).res, 1, 4)

\* bird has returned in its domain a direct-normal value attenuated to a
\* part of it, and a positive attenuated global value
C8_HalfAttenuated ==
    /\ BirdEnded
    /\ 0 <= args.zenith /\ args.zenith < Whole(90) /\ args.r > 0
    /\ args.dni_mod > 0 /\ args.dni_mod < S
    /\ res[5] > 0 /\ res[5] < res[2]
    /\ loc.ias > 0 /\ res[6] > 0

\* C9: when sampa returns a SUL percentage of 100 with the sun above the
\* horizon, each attenuated irradiance of I_e equals its unattenuated
\* counterpart (here: to within 0.01 W/m^2): direct normal, global
\* horizontal and diffuse horizontal.
C9_FullSunSameIrradiance ==
    (SampaReturned /\ res.second[4] = Whole(100) /\ SunUp) =>
        /\ Abs(res.second[5][2] - res.second[5][1]) <= Dec(1, 2)
        /\ Abs(res.second[5][4] - res.second[5][3]) <= Dec(1, 2)
        /\ Abs(res.second[5][6] - res.second[5][5]) <= Dec(1, 2)

\* C10: when sampa returns a SUL percentage of 0 with the sun above the
\* horizon, the attenuated direct-normal is 0 and the attenuated global
\* equals the attenuated diffuse; and whenever it returns with the sun above
\* the horizon, each global value is direct-normal * cos(zenith) plus the
\* corresponding diffuse value.
C10_GlobalIsDirectPlusDiffuse ==
    (SampaReturned /\ SunUp) =>
        /\ res.second[4] = 0 =>
             res.second[5][2] = 0 /\ res.second[5][4] = res.second[5][6]
        /\ res.second[5][3] =
             Mul(res.second[5][1], Cos(Radians(res.first[1]))) + res.second[5][5]
        /\ res.second[5][4] =
             Mul(res.second[5][2], Cos(Radians(res.first[1]))) + res.second[5][6]

\* sampa has returned a fully obscured sun that is above the horizon and
\* would shine
C10_FullyObscured ==
    /\ SampaReturned
    /\ SunUp
    /\ res.second[4] = 0
    /\ res.second[5][1] > 0
    /\ res.second[5][4] > 0

\* C11: solpos reports a day without sunrise or sunset by sentinels: with
\* the half-day arc ssha at most 1 degree the sunrise is 2999 and the sunset
\* -2999, with ssha at least 179 degrees the sunrise is -2999 and the sunset
\* 2999; otherwise sunrise = 720 - 4 * ssha - tstfix and sunset = 720 +
\* 4 * ssha - tstfix, so the sunrise is before the sunset and they are
\* 8 * ssha minutes apart.
C11_SunriseSunsetSentinels ==
    SolposReturned =>
        IF loc.ssha <= Whole(1)
        THEN res.sretr = Whole(2999) /\ res.ssetr = -Whole(2999)
        ELSE IF loc.ssha >= Whole(179)
        THEN res.sretr = -Whole(2999) /\ res.ssetr = Whole(2999)
        ELSE /\ res.sretr = Whole(720) - 4 * loc.ssha - loc.tstfix
             /\ res.ssetr = Whole(720) + 4 * loc.ssha - loc.tstfix
             /\ res.sretr < res.ssetr
             /\ res.ssetr - res.sretr = 8 * loc.ssha

\* solpos returned from a polar night: the operand of the half-day arc is
\* above 1, and the sunrise is the sentinel 2999
C11_PolarNight ==
    /\ SolposReturned
    /\ "cssha" \in DOMAIN loc
    /\ loc.cssha > S
    /\ loc.ssha = 0
    /\ res.sretr = Whole(2999)

\* C12: solpos returns the air mass amass and the pressure-corrected air
\* mass ampress as -1 exactly when the refracted zenith angle is above 93
\* degrees; otherwise (pressures being positive) both are positive, the base
\* 96.07995 - zenref of the Kasten-Young power is positive, and ampress is
\* amass * pressure / 1013.
C12_AirMassSentinel ==
    SolposReturned =>
        /\ (res.amass = -S) <=> (res.zenref > Whole(93))
        /\ (res.ampress = -S) <=> (res.zenref > Whole(93))
        /\ (res.zenref <= Whole(93)) =>
             /\ res.amass > 0
             /\ res.ampress > 0
             /\ Dec(9607995, 5) - res.zenref > 0
             /\ res.ampress = Div(Mul(res.amass, args.a.pressure), Whole(1013))

\* solpos returned with the sun below the horizon and the refracted zenith
\* angle still within 93 degrees: the air mass is computed there
C12_Twilight ==
    /\ SolposReturned
    /\ res.zenref > Whole(90)
    /\ res.zenref <= Whole(93)
    /\ res.amass > 0

\* C13: solpos never hands acos an operand outside [-1, 1] and so never
\* raises: cz and ca are clamped, the acos of cssha is taken only for cssha
\* within [-1, 1]; the unrefracted zenith angle is at most 99 degrees (the
\* elevation at least -9), and the refracted elevation is at least -9, so
\* the refracted zenith angle is at most 99.
C13_OperandsClamped ==
    SolposEnded =>
        /\ loc.at = "return"
        /\ Abs(loc.cz) <= S
        /\ ("ca" \in DOMAIN loc) => Abs(loc.ca) <= S
        /\ ("cssha" \in DOMAIN loc /\ Abs(loc.cssha) > S) =>
             loc.ssha \in {0, Whole(180)}
        /\ loc.zenetr <= Whole(99)
        /\ loc.elevetr >= -Whole(9)
        /\ loc.elevref >= -Whole(9)
        /\ loc.zenref <= Whole(99)

\* solpos returned from a night in which both clamps acted: the zenith
\* angle was above 99 degrees, and the azimuth operand ca computed from the
\* clamped elevation was above 1
C13_BothClampsAct ==
    /\ SolposReturned
    /\ loc.zenetr_raw > Whole(99)
    /\ loc.zenetr = Whole(99)
    /\ "ca_raw" \in DOMAIN loc
    /\ loc.ca_raw > S
    /\ loc.ca = S

\* C14: in spa and sampa the operand of every asin and acos is within
\* [-1, 1] when the call is made, so neither the elevation asin, nor the
\* incidence acos, nor the acos of the sun-moon separation raises.
C14_NoDomainError ==
    (SpaEnded \/ SampaEnded) => loc.at \notin {"e0", "i", "ems"}

\* C15: for every date in the years -2000 to 6000 spa returns a result
\* without raising; the datetimes of the day before, the day and the day
\* after are constructed for every such year, the years below 1 included.
\* (The domain errors of the incidence angle and of the sunrise/sunset
\* half-range are other claims' and are left aside here.)
C15_ReturnsInYearRange ==
    SpaEnded => loc.at \in {"return", "e0", "i", "H_0"}

\* C16: the topocentric azimuth angles returned by spa (f) and by sampa
\* (f_s for the sun, f_m for the moon) are in [0, 360): each is
\* (gamma + 180) mod 360 for the astronomers azimuth gamma, itself reduced
\* mod 360.
C16_AzimuthInRange ==
    /\ (fn = "spa" /\ loc.at = "return") =>
         /\ 0 <= res.angles[3] /\ res.angles[3] < Whole(360)
         /\ res.angles[3] = (loc.gamma2 + Whole(180)) % Whole(360)
    /\ SampaReturned =>
         /\ 0 <= res.first[2] /\ res.first[2] < Whole(360)
         /\ 0 <= res.first[4] /\ res.first[4] < Whole(360)
         /\ res.first[4] = (loc.gamma + Whole(180)) % Whole(360)

\* spa returned with the sun west of the meridian: gamma2 + 180 is at
\* least 360 and the returned azimuth is gamma2 - 180
C16_WestOfMeridian ==
    /\ fn = "spa"
    /\ loc.at = "return"
    /\ loc.gamma2 >= Whole(180)
    /\ res.angles[3] = loc.gamma2 - Whole(180)

\* C17: the topocentric right ascension and the topocentric local hour
\* angle returned by spa (for the sun) and by sampa (for the moon) are in
\* [0, 360): they stay in range when the parallax in right ascension da is
\* added to the right ascension and subtracted from the hour angle.
C17_TopocentricInRange ==
    /\ (fn = "spa" /\ loc.at = "return") =>
         /\ 0 <= res.angles[6] /\ res.angles[6] < Whole(360)
         /\ 0 <= res.angles[5] /\ res.angles[5] < Whole(360)
    /\ SampaReturned =>
         /\ 0 <= res.first[7] /\ res.first[7] < Whole(360)
         /\ 0 <= res.first[6] /\ res.first[6] < Whole(360)

C19_JulianDayByFloor ==
    (SpaEnded \/ SampaEnded) =>
        loc.jd = HoursPerDay * ((1461 * (loc.year + 4716)) \div 4
                                  + (306001 * (loc.month + 1)) \div 10000
                                  + 2 - loc.year \div 100
                                  + (loc.year \div 100) \div 4 - 1524)
                   + loc.day - HoursPerDay \div 2

\* C20: the date a spa call returns is the date it was called with: the
\* year, the month, and the day with the hour as its fraction.
C20_DateRoundTrip ==
    (fn = "spa" /\ loc.at = "return") =>
        res.date = <<args.a.year, args.a.month,
                     args.a.day * HoursPerDay + args.a.hour>>

\* C21 (as the claim says it): a spa call whose day number z_capital is below
\* 2299161 returns a day that differs from the day it was called with by
\* exactly b_for_jd.
C21_DayDiffersByB ==
    (fn = "spa" /\ loc.at = "return" /\ loc.z_capital < 2299161) =>
        res.date[3] = args.a.day * HoursPerDay + args.a.hour
                        + HoursPerDay * loc.b_for_jd

\* C21: a spa call whose day number z_capital is below 2299161 returns the
\* date, in the Julian calendar, of the day b_for_jd days after the date it
\* was called with: the Julian Day less b_for_jd days converts back, with no
\* century correction, to the date of the call, and the returned day differs
\* from the day of the call by exactly b_for_jd whenever the returned month
\* is the month of the call.
C21_JulianDateShifted ==
    (fn = "spa" /\ loc.at = "return" /\ loc.z_capital < 2299161) =>
        LET jd == loc.jd - HoursPerDay * loc.b_for_jd
            z_capital == DayNumber(jd)
            f_capital == jd + HoursPerDay \div 2 - HoursPerDay * z_capital
            c_capital == z_capital + 1524
            d_capital == CalendarD(c_capital)
            g_capital == CalendarG(d_capital)
            i_capital == CalendarI(c_capital, g_capital)
        IN  /\ YearFromJd(d_capital, MonthFromJd(i_capital)) = args.a.year
            /\ MonthFromJd(i_capital) = args.a.month
            /\ DayFromJd(c_capital, g_capital, i_capital, f_capital)
                 = args.a.day * HoursPerDay + args.a.hour
            /\ res.date[2] = args.a.month =>
                 res.date[3] = args.a.day * HoursPerDay + args.a.hour
                                 + HoursPerDay * loc.b_for_jd

\* a call on the first of a month before the Gregorian calendar returned a
\* day of the month before
C21_MonthCrossed ==
    /\ fn = "spa"
    /\ loc.at = "return"
    /\ loc.z_capital < 2299161
    /\ loc.b_for_jd < 0
    /\ res.date[2] # args.a.month

\* C24: the two data-dependent loops of solpos end: the month loop, after at
\* most 11 steps down from 12, at a month in 1 .. 12 that is the month of
\* the call, and the true-solar-time loops, after at most one step of 1440
\* minutes, at a tstfix within [-720, 720].
C24_LoopsTerminate ==
    SolposEnded =>
        LET tstfix == loc.tst - args.a.hour * 60 - args.a.minute
                        - Div(args.a.second, Whole(60))
                        + Div(args.a.interval, Whole(120))
        IN  /\ loc.month \in 1..12
            /\ loc.month = args.a.month
            /\ loc.daynum > MonthDays(IF LeapYear(args.a.year) THEN 1 ELSE 0,
                                      loc.month)
            /\ -Whole(720) <= loc.tstfix
            /\ loc.tstfix <= Whole(720)
            /\ Abs(loc.tstfix - tstfix) \in {0, Whole(1440)}

\* solpos ended on a leap day, its month found by the loop, with a true
\* solar time that was above 720 minutes and has been brought down once
C24_LeapDayWrapped ==
    /\ SolposEnded
    /\ args.a.month = 2
    /\ args.a.day = 29
    /\ loc.daynum = 60
    /\ loc.month = 2
    /\ loc.tst - args.a.hour * 60 - args.a.minute
         - Div(args.a.second, Whole(60)) > Whole(720)
    /\ loc.tstfix < 0

\* C30: the day count julday of a solpos call is one less than that of the
\* same time on the next calendar day, the first of January after the 31st
\* of December included.
C30_JuldayStepsByOne ==
    SolposEnded =>
        LET year == args.a.year
            month == args.a.month
            day == args.a.day
            leap == IF LeapYear(year) THEN 1 ELSE 0
            last == IF month = 12 THEN 31
                    ELSE MonthDays(leap, month + 1) - MonthDays(leap, month)
            tomorrow == IF day < last THEN <<year, month, day + 1>>
                        ELSE IF month < 12 THEN <<year, month + 1, 1>>
                        ELSE <<year + 1, 1, 1>>
        IN  Julday(tomorrow[1],
                   DayNum(tomorrow[1], tomorrow[2], tomorrow[3]),
                   loc.utime) = loc.julday + S

\* C25: in sampa the refraction correction of the moon is applied
\* unconditionally: for every moon elevation e0, below the depression
\* threshold -(0.26667 + 0.5667) too, de2 is the refraction formula's value
C25_MoonRefractionUngated ==
    (fn = "sampa" /\ "de2" \in DOMAIN loc)
        => loc.de2 = Refraction(args.a.pressure, args.a.temperature, loc.e0_m)

\* C25 (amended): sampa gates the moon's refraction by the same depression
\* threshold as spa gates the sun's: a moon elevation e0 below
\* -(0.26667 + 0.5667) is returned uncorrected (e = e0, theta_m = 90 - e0),
\* and from the threshold upwards e is e0 plus the refraction formula's value
C25_MoonRefractionGated ==
    SampaReturned =>
        /\ res.first[3] = Whole(90) - res.first[8]
        /\ res.first[8] =
             IF loc.e0_m < -(Dec(26667, 5) + Dec(5667, 4))
             THEN loc.e0_m
             ELSE loc.e0_m + Refraction(args.a.pressure, args.a.temperature, loc.e0_m)

C25_MoonBelowThreshold ==
    SampaReturned /\ loc.e0_m < -(Dec(26667, 5) + Dec(5667, 4)) /\ loc.de2 = 0

\* C29: the lens-area computation of sampa's partial-eclipse branch is always
\* well defined: ems is not 0, the operand of the sqrt is non-negative, the
\* operands s / r_s and m / r_m of the two acos lie in [-1, 1], no step
\* raises, and the overlap a_i lies between 0 and pi * min(r_s, r_m)^2
C29_LensWellDefined ==
    (fn = "sampa" /\ "h_arg" \in DOMAIN loc) =>
        /\ loc.ems # 0
        /\ loc.h_arg >= 0
        /\ Abs(Div(loc.s, loc.r_s)) <= S
        /\ Abs(Div(loc.m, loc.r_m)) <= S
        /\ loc.at = "return"
        /\ 0 <= loc.a_i
        /\ loc.a_i <= Mul(Pi, IF loc.r_s < loc.r_m THEN Mul(loc.r_s, loc.r_s)
                                                   ELSE Mul(loc.r_m, loc.r_m))

\* C26: the nutation in longitude, the nutation in obliquity and the true
\* obliquity are the same at every site for the same instant: the three
\* 63-row tables of spa, _sideral_time, _geocentric_ra_and_d and sampa are
\* equal row for row, the five fundamental arguments and the mean obliquity
\* equal term for term, and so are the two sums and the three results
C26_NutationSameAtEverySite ==
    (fn = "nutation" /\ loc.at = "return") =>
        \A site \in Sites :
            /\ SinTerms(site) = SinTerms(args.site)
            /\ DyTerms(site) = DyTerms(args.site)
            /\ DeTerms(site) = DeTerms(args.site)
            /\ Len(SinTerms(site)) = 63
            /\ NutationArguments(site, loc.jce) = loc.x
            /\ SiteMeanObliquity(site, Div(Div(loc.jce, Whole(10)), Whole(10)))
                 = loc.e0
            /\ NutationLocals([args EXCEPT !.site = site]).dy_sum = loc.dy_sum
            /\ NutationLocals([args EXCEPT !.site = site]).de_sum = loc.de_sum
            /\ NutationRun([args EXCEPT !.site = site]).res = res

C26_SideralTimeNutated ==
    /\ fn = "nutation"
    /\ loc.at = "return"
    /\ args.site = "_sideral_time"
    /\ res.dy # 0
    /\ res.de # 0
    /\ res.e = Div(loc.e0, Whole(3600)) + res.de

\* C27: in the longitude, distance and latitude series of the moon each
\* row's amplitude is multiplied by E^k, E = 1 - 0.002516 * jce - 0.0000074 *
\* jce^2, where k (0, 1 or 2) is the absolute value of the row's multiplier of
\* the moon's mean anomaly m_prime
C27_ScaledByMoonAnomaly ==
    (fn = "moon_series" /\ loc.at = "return") =>
        /\ loc.e = Eccentricity(loc.jce)
        /\ \A i \in 1..Len(loc.mpt) :
            /\ Abs(MoonAnomalyMultiplier(loc.mpt[i])) \in {0, 1, 2}
            /\ loc.l_terms[i] =
                 Mul(Mul(loc.mpt[i][5],
                         PowN(loc.e, Abs(MoonAnomalyMultiplier(loc.mpt[i])))),
                     Sin(Radians(MoonArgument(loc.mpt[i], loc))))
            /\ loc.r_terms[i] =
                 Mul(Mul(loc.mpt[i][6],
                         PowN(loc.e, Abs(MoonAnomalyMultiplier(loc.mpt[i])))),
                     Cos(Radians(MoonArgument(loc.mpt[i], loc))))
        /\ \A i \in 1..Len(loc.ptml) :
            /\ Abs(MoonAnomalyMultiplier(loc.ptml[i])) \in {0, 1, 2}
            /\ loc.b_terms[i] =
                 Mul(Mul(loc.ptml[i][5],
                         PowN(loc.e, Abs(MoonAnomalyMultiplier(loc.ptml[i])))),
                     Sin(Radians(MoonArgument(loc.ptml[i], loc))))

\* C27 (amended): each row's amplitude is multiplied by E^k where k (0, 1 or
\* 2) is the absolute value of the row's multiplier of m, the mean anomaly of
\* the sun (357.5291092 + 35999.0502909 * jce + ...): rows whose multiplier of
\* m is 1 or -1 are scaled by E, those with 2 or -2 by E^2, no other row is,
\* and the three sums are the sums of the rows so scaled
C27_ScaledBySunAnomaly ==
    (fn = "moon_series" /\ loc.at = "return") =>
        /\ loc.e = Eccentricity(loc.jce)
        /\ loc.m = SunMeanAnomaly(loc.jce)
        /\ \A i \in 1..Len(loc.mpt) :
            /\ Abs(SunAnomalyMultiplier(loc.mpt[i])) \in {0, 1, 2}
            /\ loc.l_terms[i] =
                 Mul(Mul(loc.mpt[i][5],
                         PowN(loc.e, Abs(SunAnomalyMultiplier(loc.mpt[i])))),
                     Sin(Radians(MoonArgument(loc.mpt[i], loc))))
            /\ loc.r_terms[i] =
                 Mul(Mul(loc.mpt[i][6],
                         PowN(loc.e, Abs(SunAnomalyMultiplier(loc.mpt[i])))),
                     Cos(Radians(MoonArgument(loc.mpt[i], loc))))
        /\ \A i \in 1..Len(loc.ptml) :
            /\ Abs(SunAnomalyMultiplier(loc.ptml[i])) \in {0, 1, 2}
            /\ loc.b_terms[i] =
                 Mul(Mul(loc.ptml[i][5],
                         PowN(loc.e, Abs(SunAnomalyMultiplier(loc.ptml[i])))),
                     Sin(Radians(MoonArgument(loc.ptml[i], loc))))
        /\ res.l = SumOf(loc.l_terms, 60)
        /\ res.r = SumOf(loc.r_terms, 60)
        /\ res.b = SumOf(loc.b_terms, 60)

C27_EccentricRowsScaled ==
    /\ fn = "moon_series"
    /\ loc.at = "return"
    /\ loc.e # S
    /\ \E i \in 1..Len(loc.mpt) :
         /\ SunAnomalyMultiplier(loc.mpt[i]) = 0
         /\ MoonAnomalyMultiplier(loc.mpt[i]) = 1
         /\ loc.l_terms[i] # Mul(Mul(loc.mpt[i][5], loc.e),
                                 Sin(Radians(MoonArgument(loc.mpt[i], loc))))
    /\ \E i \in 1..Len(loc.mpt) :
         /\ Abs(SunAnomalyMultiplier(loc.mpt[i])) = 2
         /\ loc.l_terms[i] # Mul(loc.mpt[i][5],
                                 Sin(Radians(MoonArgument(loc.mpt[i], loc))))

\* C28: the transform of the tables with missing coefficients puts 0 in the
\* place of every None of the two amplitude and rate tables of the nutation
\* and of the moon's longitude and distance table and changes nothing else:
\* the 63 and the 60 rows stay, in their order and of their length, with
\* every coefficient that is there, so that the sums meet numbers only; and
\* the 63 iterations of the nutation's loops are the rows of each of its
\* three tables
C28_OnlyNoneReplaced ==
    /\ (fn = "nutation" /\ loc.at = "return") =>
          /\ Len(loc.cfst) = NutationRows
          /\ Len(loc.cfdy) = NutationRows
          /\ Len(loc.cfde) = NutationRows
          /\ Len(DyTerms(args.site)) = 63
          /\ Len(DeTerms(args.site)) = 63
          /\ \A i \in 1..63 :
                /\ Len(loc.cfst[i]) = 5
                /\ DOMAIN loc.cfdy[i] = DOMAIN DyTerms(args.site)[i]
                /\ DOMAIN loc.cfde[i] = DOMAIN DeTerms(args.site)[i]
                /\ \A j \in 1..2 :
                      /\ loc.cfdy[i][j] =
                           IF DyTerms(args.site)[i][j] = None THEN 0
                           ELSE DyTerms(args.site)[i][j][1]
                      /\ loc.cfde[i][j] =
                           IF DeTerms(args.site)[i][j] = None THEN 0
                           ELSE DeTerms(args.site)[i][j][1]
                      /\ loc.cfdy[i][j] \in Int
                      /\ loc.cfde[i][j] \in Int
    /\ (fn = "moon_series" /\ loc.at = "return") =>
          /\ Len(loc.mpt) = 60
          /\ Len(moon_periodic_terms) = 60
          /\ \A i \in 1..60 :
                /\ DOMAIN loc.mpt[i] = DOMAIN moon_periodic_terms[i]
                /\ \A j \in 1..6 :
                      /\ loc.mpt[i][j] =
                           IF moon_periodic_terms[i][j] = None THEN 0
                           ELSE moon_periodic_terms[i][j][1]
                      /\ loc.mpt[i][j] \in Int

C28_MissingRateSummed ==
    /\ fn = "nutation"
    /\ loc.at = "return"
    /\ args.site = "spa"
    /\ \E i \in 1..63 :
         /\ DyTerms("spa")[i][2] = None
         /\ DeTerms("spa")[i] = <<None, None>>
         /\ loc.cfdy[i][1] # 0
         /\ loc.cfdy[i][2] = 0
         /\ loc.cfde[i] = <<0, 0>>
    /\ loc.dy_sum # 0

====
